---- MODULE Spec2Model ----
(***************************************************************************)
(* A model of verilog_python: the preprocessor (preproc.py), the lexer and *)
(* signal-collecting parser (parser.py) and the netlist builder and linker *)
(* (netlist.py).                                                           *)
(*                                                                         *)
(* A Python str is modelled as a sequence of one-character strings, so the *)
(* regular expressions of the source are modelled by what they match.      *)
(***************************************************************************)
EXTENDS Integers, Sequences, FiniteSets, TLC

VARIABLES
    fs,                 \* the files on disk: path -> text
    defines,            \* Preproc.defines: ordered dict, a sequence of <<name, value>>
    conditional_stack,  \* Preproc.conditional_stack
    include_stack,      \* Preproc.include_stack
    include_paths,      \* Preproc.include_paths
    frames,             \* the in-flight preprocess_stream calls, outermost first
    status,             \* "idle" | "running" | "returned" | "raised"
    retval,             \* what the last top-level preprocess_file returned
    ncalls,             \* top-level preprocess_file calls made so far
    top_file,           \* the path the last top-level preprocess_file was called on
    chain,              \* history: per open conditional, what the chain has seen
    modules,            \* Netlist.modules: ordered dict, a sequence of <<name, object>>
    heap,               \* the Module objects ever created, by object number
    need_link,          \* Netlist._need_link
    files,              \* Netlist.files: per path read, the 'content' of its entry
    sig,                \* the SigParser's accumulators
    top_modules,        \* what get_top_modules() returned, while it is the last call
    nl_last,            \* the last Netlist operation that ran
    linked,             \* history: no module was registered since the last link()
    cells_linked,       \* history: no cell was added since the last link()
    lexer,              \* a Parser and its tokenize or parse call: text, pos, the
                        \* Parser's fields; reads is history: the indices of
                        \* self.tokens the last step of parse read
    number              \* a number string and the last call of a number_*
                        \* classmethod of Language on it: its name and how it ended

vars == <<fs, defines, conditional_stack, include_stack, include_paths, frames,
          status, retval, ncalls, top_file, chain, modules, heap, need_link, files,
          sig, top_modules, nl_last, linked, cells_linked, lexer, number>>

ppvars == <<defines, conditional_stack, include_stack, include_paths, frames,
            status, retval, ncalls, top_file, chain>>

nlvars == <<modules, heap, need_link, files, sig, top_modules, nl_last, linked,
            cells_linked>>

-----------------------------------------------------------------------------
(* Bounds of the model                                                     *)

\* lines per block of a conditional
MaxBlock == 1

\* `elsif branches per conditional chain
MaxElsif == 2

\* top-level preprocess_file calls per run
MaxCalls == 2

\* nested preprocess_stream calls the interpreter allows before RecursionError
RecursionLimit == 3

\* cells in all Modules together
MaxCells == 2

\* characters of a text given to tokenize, the longer texts named below aside
MaxText == 3

\* the words of a text the parser is given
MaxWords == 3

\* the digits of a sized number literal
MaxDigits == 3

-----------------------------------------------------------------------------
(* Characters and strings                                                  *)

Lower == {"a", "b", "c", "d", "e", "f", "g", "h", "i", "j", "k", "l", "m",
          "n", "o", "p", "q", "r", "s", "t", "u", "v", "w", "x", "y", "z"}

Upper == {"A", "B", "C", "D", "E", "F", "G", "H", "I", "J", "K", "L", "M",
          "N", "O", "P", "Q", "R", "S", "T", "U", "V", "W", "X", "Y", "Z"}

Digit == {"0", "1", "2", "3", "4", "5", "6", "7", "8", "9"}

\* \w of Python's re
WordChars == Lower \cup Upper \cup Digit \cup {"_"}

\* \s of Python's re, and what str.strip() removes
SpaceChars == {" ", "\t", "\n", "\r", "\f"}

\* the backtick character (a string literal cannot hold one)
BT == "backtick"

Take(s, n) == SubSeq(s, 1, n)

Drop(s, n) == SubSeq(s, n + 1, Len(s))

\* the number of consecutive characters of s, from index i on, that are in S
RECURSIVE RunLen(_, _, _)
RunLen(s, i, S) ==
    IF i <= Len(s) /\ s[i] \in S THEN 1 + RunLen(s, i + 1, S) ELSE 0

\* the number of consecutive characters of s, from index i on, that are not in S
RECURSIVE RunLenNot(_, _, _)
RunLenNot(s, i, S) ==
    IF i <= Len(s) /\ s[i] \notin S THEN 1 + RunLenNot(s, i + 1, S) ELSE 0

\* the length of s[1..n] without its trailing characters that are in S
RECURSIVE RStripLen(_, _, _)
RStripLen(s, n, S) ==
    IF n > 0 /\ s[n] \in S THEN RStripLen(s, n - 1, S) ELSE n

\* str.rstrip()
RStrip(s) == Take(s, RStripLen(s, Len(s), SpaceChars))

\* str.strip()
Strip(s) == Drop(RStrip(s), RunLen(RStrip(s), 1, SpaceChars))

\* s without a line end at its end
RStripNewline(s) == IF s # <<>> /\ s[Len(s)] = "\n" THEN Take(s, Len(s) - 1) ELSE s

\* s without its last character
ChopLast(s) == Take(s, Len(s) - 1)

\* iterating a text stream: the lines, each with its line end.  n is the length
\* of the first line without its line end
RECURSIVE SplitLines(_)
SplitAt(t, n) ==
    IF n = Len(t) THEN <<t>>
    ELSE <<Take(t, n + 1)>> \o SplitLines(Drop(t, n + 1))

SplitLines(t) ==
    IF t = <<>> THEN <<>> ELSE SplitAt(t, RunLenNot(t, 1, {"\n"}))

\* ''.join(parts)
RECURSIVE Join(_)
Join(parts) ==
    IF parts = <<>> THEN <<>> ELSE Head(parts) \o Join(Tail(parts))

-----------------------------------------------------------------------------
(* Preproc: the macro table                                                *)

\* name in self.defines
IsDefined(defs, name) == \E i \in 1..Len(defs) : defs[i][1] = name

\* self.defines[name] = value: a new key goes last, an old key keeps its place
DictSet(defs, name, value) ==
    IF IsDefined(defs, name)
    THEN [i \in 1..Len(defs) |->
             IF defs[i][1] = name THEN <<name, value>> ELSE defs[i]]
    ELSE Append(defs, <<name, value>>)

\* del self.defines[name]
RECURSIVE DictDel(_, _)
DictDel(defs, name) ==
    IF defs = <<>> THEN <<>>
    ELSE IF Head(defs)[1] = name THEN DictDel(Tail(defs), name)
    ELSE <<Head(defs)>> \o DictDel(Tail(defs), name)

\* r'\bNAME\b' matches at index i of line
WordAt(line, i, name) ==
    /\ i + Len(name) - 1 <= Len(line)
    /\ SubSeq(line, i, i + Len(name) - 1) = name
    /\ (i = 1 \/ line[i - 1] \notin WordChars)
    /\ (i + Len(name) > Len(line) \/ line[i + Len(name)] \notin WordChars)

\* re.sub(r'\bNAME\b', value, line): every whole-word occurrence, left to right
RECURSIVE SubWord(_, _, _, _)
SubWord(line, i, name, value) ==
    IF i > Len(line) THEN <<>>
    ELSE IF WordAt(line, i, name)
         THEN value \o SubWord(line, i + Len(name), name, value)
         ELSE <<line[i]>> \o SubWord(line, i + 1, name, value)

\* the loop of _expand_defines over self.defines.items(), from item k on
RECURSIVE ExpandFrom(_, _, _)
ExpandFrom(defs, k, line) ==
    IF k > Len(defs) THEN line
    ELSE ExpandFrom(defs, k + 1, SubWord(line, 1, defs[k][1], defs[k][2]))

expand_defines(defs, line) == ExpandFrom(defs, 1, line)

-----------------------------------------------------------------------------
(* Preproc: recognising a directive line                                   *)

W_define == <<"d", "e", "f", "i", "n", "e">>
W_undef == <<"u", "n", "d", "e", "f">>
W_include == <<"i", "n", "c", "l", "u", "d", "e">>
W_ifdef == <<"i", "f", "d", "e", "f">>
W_ifndef == <<"i", "f", "n", "d", "e", "f">>
W_else == <<"e", "l", "s", "e">>
W_elsif == <<"e", "l", "s", "i", "f">>
W_endif == <<"e", "n", "d", "i", "f">>

\* the directives that are returned as they are
PassThroughWords ==
    {<<"t", "i", "m", "e", "s", "c", "a", "l", "e">>,
     <<"l", "i", "n", "e">>,
     <<"p", "r", "a", "g", "m", "a">>,
     <<"b", "e", "g", "i", "n", "_", "k", "e", "y", "w", "o", "r", "d", "s">>,
     <<"e", "n", "d", "_", "k", "e", "y", "w", "o", "r", "d", "s">>}

\* re.match(r'^\s*`(\w+)', line): where the backtick has to be
DirStart(line) == RunLen(line, 1, SpaceChars) + 1

IsDirective(line) ==
    /\ DirStart(line) <= Len(line)
    /\ line[DirStart(line)] = BT
    /\ RunLen(line, DirStart(line) + 1, WordChars) > 0

\* the run of word characters of s from index i on
WordFrom(s, i) == SubSeq(s, i, i + RunLen(s, i, WordChars) - 1)

\* group(1) of that match
DirectiveWord(line) == WordFrom(line, DirStart(line) + 1)

\* the index of the first character after the directive word
AfterWord(line) == DirStart(line) + 1 + RunLen(line, DirStart(line) + 1, WordChars)

\* the index of the first character after the white space that follows the word
ArgStart(line) == AfterWord(line) + RunLen(line, AfterWord(line), SpaceChars)

\* re.match(r'^\s*`word\s+(\w+)', line) in the handler of directive `word
HasNameArg(line) ==
    /\ ArgStart(line) > AfterWord(line)
    /\ RunLen(line, ArgStart(line), WordChars) >= 1

\* group(1) of that match
NameArg(line) == WordFrom(line, ArgStart(line))

\* what follows the name up to the line end
AfterName(line) ==
    RStripNewline(Drop(line, ArgStart(line) + Len(NameArg(line)) - 1))

\* the rest of r'^\s*`define\s+(\w+)(?:\s+(.+))?$' after the name: nothing up
\* to the line end, or white space and at least one more character
IsDefineTail(t) == t = <<>> \/ (Len(t) >= 2 /\ t[1] \in SpaceChars)

HasDefineArg(line) == HasNameArg(line) /\ IsDefineTail(AfterName(line))

\* (match.group(2) or '').strip()
DefineValue(line) == Strip(AfterName(line))

\* re.match(r'^\s*`include\s+["<]([^">]+)[">]', line): the file name starts at
\* index q + 1 and is n characters long
IsIncludeArg(line, q, n) ==
    /\ q > AfterWord(line)
    /\ q <= Len(line)
    /\ line[q] \in {"\"", "<"}
    /\ n >= 1
    /\ q + n + 1 <= Len(line)

HasIncludeArg(line) ==
    IsIncludeArg(line, ArgStart(line), RunLenNot(line, ArgStart(line) + 1, {"\"", ">"}))

\* group(1) of that match
IncludeArg(line) ==
    SubSeq(line, ArgStart(line) + 1,
           ArgStart(line) + RunLenNot(line, ArgStart(line) + 1, {"\"", ">"}))

\* line.rstrip().endswith('\\')
IsContinuation(line) == RStrip(line) # <<>> /\ RStrip(line)[Len(RStrip(line))] = "\\"

-----------------------------------------------------------------------------
(* Preproc: the directive handlers.  pp is the preprocessor's state,       *)
(* [defines, conditional_stack]; a handler returns the new state and what  *)
(* it returns to preprocess_stream (emit = FALSE is None).                 *)

None(pp) == [pp |-> pp, emit |-> FALSE, text |-> <<>>]

Emit(pp, text) == [pp |-> pp, emit |-> TRUE, text |-> text]

\* self.conditional_stack and not self.conditional_stack[-1]['active']
Inactive(stack) == stack # <<>> /\ ~stack[Len(stack)].active

\* a new frame; the key 'previous_active' is absent until an `elsif sets it
NewFrame(type, active) ==
    [type |-> type, active |-> active, had_else |-> FALSE,
     has_previous_active |-> FALSE, previous_active |-> FALSE]

\* the stack with its last frame replaced
SetTop(stack, frame) == [stack EXCEPT ![Len(stack)] = frame]

\* self.conditional_stack[-1]
Top(stack) == stack[Len(stack)]

handle_define(pp, line) ==
    IF Inactive(pp.conditional_stack) THEN None(pp)
    ELSE IF HasDefineArg(line)
         THEN None([pp EXCEPT !.defines = DictSet(@, NameArg(line), DefineValue(line))])
         ELSE None(pp)

handle_undef(pp, line) ==
    IF Inactive(pp.conditional_stack) THEN None(pp)
    ELSE IF HasNameArg(line) /\ IsDefined(pp.defines, NameArg(line))
         THEN None([pp EXCEPT !.defines = DictDel(@, NameArg(line))])
         ELSE None(pp)

handle_ifdef(pp, line) ==
    IF HasNameArg(line)
    THEN None([pp EXCEPT !.conditional_stack =
                  Append(@, NewFrame("ifdef", IsDefined(pp.defines, NameArg(line))))])
    ELSE None(pp)

handle_ifndef(pp, line) ==
    IF HasNameArg(line)
    THEN None([pp EXCEPT !.conditional_stack =
                  Append(@, NewFrame("ifndef", ~IsDefined(pp.defines, NameArg(line))))])
    ELSE None(pp)

\* an `else that only records itself
ElseFrame_keeps_active(current) == [current EXCEPT !.had_else = TRUE]

\* current['active'] = not current['active']; current['had_else'] = True
ElseFrame(current) == [current EXCEPT !.active = ~current.active, !.had_else = TRUE]

handle_else_repeats(pp, line) ==
    IF pp.conditional_stack = <<>> THEN None(pp)
    ELSE None([pp EXCEPT !.conditional_stack = SetTop(@, ElseFrame(Top(@)))])

handle_else(pp, line) ==
    IF pp.conditional_stack = <<>> THEN None(pp)
    ELSE IF Top(pp.conditional_stack).had_else THEN None(pp)
    ELSE None([pp EXCEPT !.conditional_stack = SetTop(@, ElseFrame(Top(@)))])

\* current['active'] = not current.get('previous_active', False) and name in
\* self.defines; current['previous_active'] = current['active']
ElsifActive(current, defined) ==
    ~(current.has_previous_active /\ current.previous_active) /\ defined

ElsifFrame(current, defined) ==
    [current EXCEPT !.active = ElsifActive(current, defined),
                    !.has_previous_active = TRUE,
                    !.previous_active = ElsifActive(current, defined)]

handle_elsif(pp, line) ==
    IF pp.conditional_stack = <<>> THEN None(pp)
    ELSE IF Top(pp.conditional_stack).had_else THEN None(pp)
    ELSE IF HasNameArg(line)
         THEN None([pp EXCEPT !.conditional_stack =
                       SetTop(@, ElsifFrame(Top(@), IsDefined(pp.defines, NameArg(line))))])
         ELSE None(pp)

handle_endif(pp, line) ==
    IF pp.conditional_stack = <<>> THEN None(pp)
    ELSE None([pp EXCEPT !.conditional_stack = ChopLast(@)])

\* _handle_timescale, _handle_line, _handle_pragma, _handle_begin_keywords and
\* _handle_end_keywords
handle_pass_through(pp, line) == Emit(pp, line)

\* _process_line on a line that ends in a backslash
process_continuation(pp, line) == Emit(pp, ChopLast(RStrip(line)) \o <<" ">>)

\* _process_line on a directive that is no key of self.directives
process_unknown_directive(pp, line) == Emit(pp, line)

\* a variant that drops the white space at the end of the line
process_plain_stripped(pp, line) ==
    IF Inactive(pp.conditional_stack) THEN None(pp)
    ELSE Emit(pp, expand_defines(pp.defines, RStrip(line)))

\* _process_line on a line that is no directive
process_plain(pp, line) ==
    IF Inactive(pp.conditional_stack) THEN None(pp)
    ELSE Emit(pp, expand_defines(pp.defines, line))

\* the handler self.directives has for a directive word
DirectiveKind(w) ==
    CASE w = W_define  -> "define"
      [] w = W_undef   -> "undef"
      [] w = W_include -> "include"
      [] w = W_ifdef   -> "ifdef"
      [] w = W_ifndef  -> "ifndef"
      [] w = W_else    -> "else"
      [] w = W_elsif   -> "elsif"
      [] w = W_endif   -> "endif"
      [] w \in PassThroughWords -> "pass_through"
      [] OTHER -> "unknown"

\* which branch of _process_line a line takes
LineKind(line) ==
    IF IsContinuation(line) THEN "continuation"
    ELSE IF IsDirective(line) THEN DirectiveKind(DirectiveWord(line))
    ELSE "plain"

Dispatch(k, pp, line) ==
    CASE k = "continuation" -> process_continuation(pp, line)
      [] k = "define"       -> handle_define(pp, line)
      [] k = "undef"        -> handle_undef(pp, line)
      [] k = "ifdef"        -> handle_ifdef(pp, line)
      [] k = "ifndef"       -> handle_ifndef(pp, line)
      [] k = "else"         -> handle_else(pp, line)
      [] k = "elsif"        -> handle_elsif(pp, line)
      [] k = "endif"        -> handle_endif(pp, line)
      [] k = "pass_through" -> handle_pass_through(pp, line)
      [] k = "unknown"      -> process_unknown_directive(pp, line)
      [] OTHER              -> process_plain(pp, line)

\* _process_line, for every line but an `include (which calls preprocess_stream)
process_line(pp, line) == Dispatch(LineKind(line), pp, line)

-----------------------------------------------------------------------------
(* Preproc: resolving an `include                                          *)

\* os.path.isabs
IsAbs(path) == path # <<>> /\ path[1] = "/"

\* the head of a path without its trailing slashes, unless it is slashes only
DirHead(head) ==
    IF RStripLen(head, Len(head), {"/"}) = 0 THEN head
    ELSE Take(head, RStripLen(head, Len(head), {"/"}))

\* the index of the last c in s[1..n], or 0
RECURSIVE LastIndexOf(_, _, _)
LastIndexOf(s, n, c) ==
    IF n > 0 /\ s[n] # c THEN LastIndexOf(s, n - 1, c) ELSE n

\* os.path.dirname: the path up to its last slash
DirName(path) == DirHead(Take(path, LastIndexOf(path, Len(path), "/")))

\* os.path.join of two parts
PathJoin(dir, file) ==
    IF IsAbs(file) \/ dir = <<>> THEN file
    ELSE IF dir[Len(dir)] = "/" THEN dir \o file
    ELSE dir \o <<"/">> \o file

\* os.path.exists
Exists(fsys, path) == path \in DOMAIN fsys

\* None, for a path
NoPath == <<>>

\* the first include path, from index k on, under which the file exists
RECURSIVE SearchPaths(_, _, _, _)
SearchPaths(fsys, paths, k, include_file) ==
    IF k > Len(paths) THEN NoPath
    ELSE IF Exists(fsys, PathJoin(paths[k], include_file))
         THEN PathJoin(paths[k], include_file)
         ELSE SearchPaths(fsys, paths, k + 1, include_file)

resolve_include_paths_first(fsys, paths, include_file, current_file) ==
    IF IsAbs(include_file)
    THEN IF Exists(fsys, include_file) THEN include_file ELSE NoPath
    ELSE IF SearchPaths(fsys, paths, 1, include_file) # NoPath
         THEN SearchPaths(fsys, paths, 1, include_file)
         ELSE IF Exists(fsys, PathJoin(DirName(current_file), include_file))
              THEN PathJoin(DirName(current_file), include_file)
              ELSE NoPath

\* _resolve_include
resolve_include(fsys, paths, include_file, current_file) ==
    IF IsAbs(include_file)
    THEN IF Exists(fsys, include_file) THEN include_file ELSE NoPath
    ELSE IF Exists(fsys, PathJoin(DirName(current_file), include_file))
         THEN PathJoin(DirName(current_file), include_file)
         ELSE SearchPaths(fsys, paths, 1, include_file)

\* _handle_include up to the call of preprocess_stream: the file to read, or
\* NoPath when the directive returns None at once
include_target(fsys, paths, pp, line, filename) ==
    IF Inactive(pp.conditional_stack) THEN NoPath
    ELSE IF HasIncludeArg(line)
         THEN resolve_include(fsys, paths, IncludeArg(line), filename)
         ELSE NoPath

-----------------------------------------------------------------------------
(* Parser: the token patterns.  Each XLen(text, pos) is the length of the  *)
(* match of pattern X on text[pos:], 0 for no match.                       *)

K_module == <<"m", "o", "d", "u", "l", "e">>
K_input == <<"i", "n", "p", "u", "t">>
K_output == <<"o", "u", "t", "p", "u", "t">>
K_inout == <<"i", "n", "o", "u", "t">>
K_wire == <<"w", "i", "r", "e">>
K_reg == <<"r", "e", "g">>
K_parameter == <<"p", "a", "r", "a", "m", "e", "t", "e", "r">>

\* the alternatives of the KEYWORD pattern
Keywords ==
    {K_module,
     <<"e", "n", "d", "m", "o", "d", "u", "l", "e">>,
     K_input,
     K_output,
     K_inout,
     K_wire,
     K_reg,
     <<"a", "l", "w", "a", "y", "s">>,
     <<"a", "s", "s", "i", "g", "n">>,
     <<"b", "e", "g", "i", "n">>,
     <<"e", "n", "d">>,
     <<"i", "f">>,
     <<"e", "l", "s", "e">>,
     <<"c", "a", "s", "e">>,
     <<"e", "n", "d", "c", "a", "s", "e">>,
     <<"f", "o", "r">>,
     <<"w", "h", "i", "l", "e">>,
     <<"f", "u", "n", "c", "t", "i", "o", "n">>,
     <<"e", "n", "d", "f", "u", "n", "c", "t", "i", "o", "n">>,
     <<"t", "a", "s", "k">>,
     <<"e", "n", "d", "t", "a", "s", "k">>,
     K_parameter,
     <<"l", "o", "c", "a", "l", "p", "a", "r", "a", "m">>,
     <<"i", "n", "t", "e", "g", "e", "r">>,
     <<"r", "e", "a", "l">>,
     <<"t", "i", "m", "e">>,
     <<"i", "n", "i", "t", "i", "a", "l">>,
     <<"f", "i", "n", "a", "l">>}

\* [0-9a-fA-F_xXzZ] of the NUMBER pattern
NumberChars ==
    Digit \cup {"a", "b", "c", "d", "e", "f", "A", "B", "C", "D", "E", "F",
                "_", "x", "X", "z", "Z"}

\* [a-zA-Z0-9_$] of the IDENTIFIER pattern
IdentChars == Lower \cup Upper \cup Digit \cup {"_", "$"}

\* [+\-*/%<>=!&|^~]
OperatorChars == {"+", "-", "*", "/", "%", "<", ">", "=", "!", "&", "|", "^", "~"}

\* [(){}\[\];,.#:]
DelimiterChars == {"(", ")", "{", "}", "[", "]", ";", ",", ".", "#", ":"}

\* text[pos] is in S
CharIn(text, pos, S) == pos <= Len(text) /\ text[pos] \in S

\* '//.*$': the comment has to run to the end of the text, or to a line end
\* that is the last character of the text.  e is the index after the comment
LineCommentEnds(text, e) == e > Len(text) \/ (e = Len(text) /\ text[e] = "\n")

LineCommentLen(text, pos) ==
    IF CharIn(text, pos, {"/"}) /\ CharIn(text, pos + 1, {"/"})
          /\ LineCommentEnds(text, pos + 2 + RunLenNot(text, pos + 2, {"\n"}))
    THEN 2 + RunLenNot(text, pos + 2, {"\n"})
    ELSE 0

\* '/\*.*?\*/': the index of the star of the first */ from k on, on the same
\* line, or 0
RECURSIVE BlockCommentClose(_, _)
BlockCommentClose(text, k) ==
    IF k + 1 > Len(text) THEN 0
    ELSE IF text[k] = "*" /\ text[k + 1] = "/" THEN k
    ELSE IF text[k] = "\n" THEN 0
    ELSE BlockCommentClose(text, k + 1)

BlockCommentLen(text, pos) ==
    IF CharIn(text, pos, {"/"}) /\ CharIn(text, pos + 1, {"*"})
          /\ BlockCommentClose(text, pos + 2) > 0
    THEN BlockCommentClose(text, pos + 2) + 2 - pos
    ELSE 0

CommentLen(text, pos) ==
    IF LineCommentLen(text, pos) > 0 THEN LineCommentLen(text, pos)
    ELSE BlockCommentLen(text, pos)

\* '"[^"]*"'
StringLen(text, pos) ==
    IF CharIn(text, pos, {"\""})
          /\ CharIn(text, pos + 1 + RunLenNot(text, pos + 1, {"\""}), {"\""})
    THEN 2 + RunLenNot(text, pos + 1, {"\""})
    ELSE 0

\* "\d+'[bdh][0-9a-fA-F_xXzZ]+", given the d digits at pos
SizedLen(text, pos, d) ==
    IF CharIn(text, pos + d, {"'"}) /\ CharIn(text, pos + d + 1, {"b", "d", "h"})
          /\ CharIn(text, pos + d + 2, NumberChars)
    THEN d + 2 + RunLen(text, pos + d + 2, NumberChars)
    ELSE 0

\* "\d+'[bdh][0-9a-fA-F_xXzZ]+|\d+"
NumberLen(text, pos) ==
    IF RunLen(text, pos, Digit) = 0 THEN 0
    ELSE IF SizedLen(text, pos, RunLen(text, pos, Digit)) > 0
         THEN SizedLen(text, pos, RunLen(text, pos, Digit))
         ELSE RunLen(text, pos, Digit)

\* '`\w+'
DirectiveLen(text, pos) ==
    IF CharIn(text, pos, {BT}) /\ CharIn(text, pos + 1, WordChars)
    THEN 1 + RunLen(text, pos + 1, WordChars)
    ELSE 0

\* '\b(module|...)\b' on text[pos:]: the word at pos is one of the keywords
KeywordLen(text, pos) ==
    IF WordFrom(text, pos) \in Keywords THEN RunLen(text, pos, WordChars) ELSE 0

\* '\b[a-zA-Z_][a-zA-Z0-9_$]*\b': the closing \b gives back the dollars the
\* star has taken at the end
IdentifierLen(text, pos) ==
    IF CharIn(text, pos, Lower \cup Upper \cup {"_"})
    THEN RStripLen(text, pos + RunLen(text, pos, IdentChars) - 1, {"$"}) - pos + 1
    ELSE 0

OperatorLen(text, pos) == RunLen(text, pos, OperatorChars)

DelimiterLen(text, pos) == IF CharIn(text, pos, DelimiterChars) THEN 1 ELSE 0

\* '\s+'
WhitespaceLen(text, pos) == RunLen(text, pos, SpaceChars)

-----------------------------------------------------------------------------
(* Parser: tokenize                                                        *)

\* Token(type, value, line, column); pos is history: where the match started
Token(type, value, line, column, pos) ==
    [type |-> type, value |-> value, line |-> line, column |-> column, pos |-> pos]

\* None, for a token
NoToken == [type |-> "NONE", value |-> <<>>, line |-> 0, column |-> 0, pos |-> 0]

\* the text of a match of n characters at pos
Lexeme(text, pos, n) == SubSeq(text, pos, pos + n - 1)

\* white space that holds a line end becomes a NEWLINE token of value '\n'
WhitespaceToken(value, line, column, pos) ==
    IF \E i \in 1..Len(value) : value[i] = "\n"
    THEN Token("NEWLINE", <<"\n">>, line, column, pos)
    ELSE Token("WHITESPACE", value, line, column, pos)

\* _next_token: the first pattern, in the order of self.patterns, that matches
next_token(text, pos, line, column) ==
    IF CommentLen(text, pos) > 0
    THEN Token("COMMENT", Lexeme(text, pos, CommentLen(text, pos)), line, column, pos)
    ELSE IF StringLen(text, pos) > 0
    THEN Token("STRING", Lexeme(text, pos, StringLen(text, pos)), line, column, pos)
    ELSE IF NumberLen(text, pos) > 0
    THEN Token("NUMBER", Lexeme(text, pos, NumberLen(text, pos)), line, column, pos)
    ELSE IF DirectiveLen(text, pos) > 0
    THEN Token("DIRECTIVE", Lexeme(text, pos, DirectiveLen(text, pos)), line, column, pos)
    ELSE IF KeywordLen(text, pos) > 0
    THEN Token("KEYWORD", Lexeme(text, pos, KeywordLen(text, pos)), line, column, pos)
    ELSE IF IdentifierLen(text, pos) > 0
    THEN Token("IDENTIFIER", Lexeme(text, pos, IdentifierLen(text, pos)), line, column, pos)
    ELSE IF OperatorLen(text, pos) > 0
    THEN Token("OPERATOR", Lexeme(text, pos, OperatorLen(text, pos)), line, column, pos)
    ELSE IF DelimiterLen(text, pos) > 0
    THEN Token("DELIMITER", Lexeme(text, pos, DelimiterLen(text, pos)), line, column, pos)
    ELSE IF WhitespaceLen(text, pos) > 0
    THEN WhitespaceToken(Lexeme(text, pos, WhitespaceLen(text, pos)), line, column, pos)
    ELSE NoToken

\* the loop of tokenize from index pos on (the first character is index 1)
RECURSIVE TokenizeFrom(_, _, _, _, _)
TokenizeStep(text, pos, line, column, tokens, token) ==
    IF token.type = "NONE"
    THEN TokenizeFrom(text, pos + 1, line, column + 1, tokens)
    ELSE IF token.type = "NEWLINE"
    THEN TokenizeFrom(text, pos + Len(token.value), line + 1, 1, Append(tokens, token))
    ELSE TokenizeFrom(text, pos + Len(token.value), line, column + Len(token.value),
                      Append(tokens, token))

TokenizeFrom(text, pos, line, column, tokens) ==
    IF pos > Len(text) THEN Append(tokens, Token("EOF", <<>>, line, column, pos))
    ELSE TokenizeStep(text, pos, line, column, tokens,
                      next_token(text, pos, line, column))

tokenize(text) == TokenizeFrom(text, 1, 1, 1, <<>>)

\* a Parser on which tokenize is not running: Parser.__init__
LexerIdle ==
    [pc |-> "idle", text |-> <<>>, pos |-> 1, line |-> 1, column |-> 1, tokens |-> <<>>,
     current_token |-> 0, reads |-> {}]

\* a number string no number_* classmethod was called on
NoCall(number_string) ==
    [string |-> number_string, called |-> "none", outcome |-> "none", value |-> 0]

-----------------------------------------------------------------------------
(* SigParser: parse.  sg is the parser's accumulators, which live as long  *)
(* as the parser; cur is self.current_token + 1.                           *)

LowerLetters == <<"a", "b", "c", "d", "e", "f", "g", "h", "i", "j", "k", "l", "m",
                  "n", "o", "p", "q", "r", "s", "t", "u", "v", "w", "x", "y", "z">>

UpperLetters == <<"A", "B", "C", "D", "E", "F", "G", "H", "I", "J", "K", "L", "M",
                  "N", "O", "P", "Q", "R", "S", "T", "U", "V", "W", "X", "Y", "Z">>

\* str.lower()
ToLower(c) ==
    IF c \in Upper
    THEN LowerLetters[CHOOSE i \in 1..Len(UpperLetters) : UpperLetters[i] = c]
    ELSE c

LowerCase(s) == [i \in 1..Len(s) |-> ToLower(s[i])]

\* None, for a module name
NoName == <<>>

\* SigParser.__init__
NewSig ==
    [current_module |-> NoName, current_ports |-> <<>>, current_nets |-> <<>>,
     current_parameters |-> <<>>]

\* while current_token < len(tokens) and tokens[current_token].type !=
\* IDENTIFIER: current_token += 1
RECURSIVE SkipToIdentifier(_, _)
SkipToIdentifier(tokens, cur) ==
    IF cur <= Len(tokens) /\ tokens[cur].type # "IDENTIFIER"
    THEN SkipToIdentifier(tokens, cur + 1)
    ELSE cur

\* SigParser._parse_module, j the cursor after the skip
parse_module(tokens, j, sg) ==
    [NewSig EXCEPT !.current_module =
        IF j <= Len(tokens) THEN tokens[j].value ELSE NoName]

\* SigParser._parse_port_declaration
parse_port_declaration(tokens, token, j, sg) ==
    IF j <= Len(tokens)
    THEN [sg EXCEPT !.current_ports =
             Append(@, [name |-> tokens[j].value,
                        direction |-> LowerCase(token.value),
                        line |-> token.line])]
    ELSE sg

\* SigParser._parse_net_declaration
parse_net_declaration(tokens, token, j, sg) ==
    IF j <= Len(tokens)
    THEN [sg EXCEPT !.current_nets =
             Append(@, [name |-> tokens[j].value,
                        type |-> LowerCase(token.value),
                        line |-> token.line])]
    ELSE sg

\* SigParser._parse_parameter
parse_parameter(tokens, j, sg) ==
    IF j <= Len(tokens)
    THEN [sg EXCEPT !.current_parameters =
             Append(@, [name |-> tokens[j].value, line |-> tokens[j].line])]
    ELSE sg

\* the keywords whose handler moves the cursor to the next identifier
SkippingKeywords == {K_module, K_input, K_output, K_inout, K_wire, K_reg, K_parameter}

\* _handle_keyword with the callbacks the Netlist installs: what the handler
\* leaves in the accumulators
handle_keyword(tokens, token, keyword, j, sg) ==
    CASE keyword = K_module -> parse_module(tokens, j, sg)
      [] keyword \in {K_input, K_output, K_inout} ->
           parse_port_declaration(tokens, token, j, sg)
      [] keyword \in {K_wire, K_reg} -> parse_net_declaration(tokens, token, j, sg)
      [] keyword = K_parameter -> parse_parameter(tokens, j, sg)
      [] OTHER -> sg

\* the loop of parse
RECURSIVE ParseFrom(_, _, _)
ParseKeyword(tokens, cur, keyword, j, sg) ==
    ParseFrom(tokens, (IF keyword \in SkippingKeywords THEN j ELSE cur) + 1,
              handle_keyword(tokens, tokens[cur], keyword, j, sg))

ParseFrom(tokens, cur, sg) ==
    IF cur > Len(tokens) THEN sg
    ELSE IF tokens[cur].type = "EOF" THEN sg
    ELSE IF tokens[cur].type = "KEYWORD"
    THEN ParseKeyword(tokens, cur, LowerCase(tokens[cur].value),
                      SkipToIdentifier(tokens, cur), sg)
    ELSE ParseFrom(tokens, cur + 1, sg)

\* parse(text), and what get_module_info() returns after it
parse(text, sg) == ParseFrom(tokenize(text), 1, sg)

-----------------------------------------------------------------------------
(* Preproc: preprocess_stream as one step, for the Netlist                 *)

\* the lines of a stream from the current one on: the state, the output so
\* far, and whether an exception is on its way up
RECURSIVE preprocess_lines(_, _, _, _, _, _, _)
StreamResult(pp, out, raised) == [pp |-> pp, out |-> out, raised |-> raised]

AfterLine(fsys, paths, lines, filename, depth, out, r) ==
    preprocess_lines(fsys, paths, r.pp, Tail(lines), filename, depth,
                     IF r.emit THEN out \o r.text ELSE out)

AfterInclude(fsys, paths, lines, filename, depth, out, r) ==
    IF r.raised THEN r
    ELSE preprocess_lines(fsys, paths, r.pp, Tail(lines), filename, depth, out \o r.out)

IncludeLine(fsys, paths, pp, lines, filename, depth, out, t) ==
    IF t = NoPath
    THEN preprocess_lines(fsys, paths, pp, Tail(lines), filename, depth, out)
    ELSE IF depth < RecursionLimit
    THEN AfterInclude(fsys, paths, lines, filename, depth, out,
                      preprocess_lines(fsys, paths, pp, SplitLines(fsys[t]), t,
                                       depth + 1, <<>>))
    ELSE StreamResult(pp, <<>>, TRUE)

preprocess_lines(fsys, paths, pp, lines, filename, depth, out) ==
    IF lines = <<>> THEN StreamResult(pp, out, FALSE)
    ELSE IF LineKind(Head(lines)) = "include"
    THEN IncludeLine(fsys, paths, pp, lines, filename, depth, out,
                     include_target(fsys, paths, pp, Head(lines), filename))
    ELSE AfterLine(fsys, paths, lines, filename, depth, out,
                   process_line(pp, Head(lines)))

\* preprocess_file(filename) on a file that exists
preprocess_file(fsys, paths, pp, filename) ==
    preprocess_lines(fsys, paths, pp, SplitLines(fsys[filename]), filename, 1, <<>>)

-----------------------------------------------------------------------------
(* Netlist: Module objects, cells and linking.  heap[o] is Module object   *)
(* o; a dict is a sequence of <<key, value>> in insertion order.           *)

\* None, for a Module object
NoModule == 0

\* dict[key]
Lookup(dict, key) == dict[CHOOSE i \in 1..Len(dict) : dict[i][1] = key][2]

\* a variant that makes the cell resolved to the first Module object
NewCell_resolved(module_name) == [module_name |-> module_name, module |-> 1]

\* Cell(name, module_name): module is None
NewCell(module_name) == [module_name |-> module_name, module |-> NoModule]

\* the loops of _create_module_from_info over the descriptors, from index k on
RECURSIVE AddPorts(_, _, _)
AddPorts(ports, infos, k) ==
    IF k > Len(infos) THEN ports
    ELSE AddPorts(DictSet(ports, infos[k].name, infos[k].direction), infos, k + 1)

RECURSIVE AddNets(_, _, _)
AddNets(nets, infos, k) ==
    IF k > Len(infos) THEN nets
    ELSE AddNets(DictSet(nets, infos[k].name, infos[k].type), infos, k + 1)

RECURSIVE AddParameters(_, _, _)
AddParameters(parameters, infos, k) ==
    IF k > Len(infos) THEN parameters
    ELSE AddParameters(DictSet(parameters, infos[k].name, <<"1">>), infos, k + 1)

\* the Module that _create_module_from_info builds
NewModule(module_info, filename) ==
    [name |-> module_info.current_module,
     filename |-> filename,
     ports |-> AddPorts(<<>>, module_info.current_ports, 1),
     nets |-> AddNets(<<>>, module_info.current_nets, 1),
     parameters |-> AddParameters(<<>>, module_info.current_parameters, 1),
     cells |-> <<>>,
     parent_netlist |-> TRUE]

\* a cell that stays as it is
LinkCell_unresolved(cell, mods) == cell

\* a variant that resolves a cell of an unknown module to the first Module
LinkCell_resolves_unknown(cell, mods) ==
    IF IsDefined(mods, cell[2].module_name)
    THEN <<cell[1], [cell[2] EXCEPT !.module = Lookup(mods, cell[2].module_name)]>>
    ELSE <<cell[1], [cell[2] EXCEPT !.module = 1]>>

\* a variant that takes the resolution of a resolved cell away
LinkCell_forgets(cell, mods) ==
    IF cell[2].module # NoModule
    THEN <<cell[1], [cell[2] EXCEPT !.module = NoModule]>>
    ELSE IF IsDefined(mods, cell[2].module_name)
    THEN <<cell[1], [cell[2] EXCEPT !.module = Lookup(mods, cell[2].module_name)]>>
    ELSE cell

\* the loop body of Module.link: cell is an item <<cell_name, cell>>
LinkCell(cell, mods) ==
    IF IsDefined(mods, cell[2].module_name)
    THEN <<cell[1], [cell[2] EXCEPT !.module = Lookup(mods, cell[2].module_name)]>>
    ELSE cell

\* Module.link
module_link(m, mods) ==
    [m EXCEPT !.cells = [i \in 1..Len(m.cells) |-> LinkCell(m.cells[i], mods)]]

\* while self._need_link: module = self._need_link.pop(); module.link()
RECURSIVE LinkPending(_, _, _)
LinkPending(h, pending, mods) ==
    IF pending = <<>> THEN h
    ELSE LinkPending([h EXCEPT ![pending[Len(pending)]] = module_link(@, mods)],
                     ChopLast(pending), mods)

\* for module in self.modules.values(): module.link(), from item k on
RECURSIVE LinkRegistered(_, _, _)
LinkRegistered(h, mods, k) ==
    IF k > Len(mods) THEN h
    ELSE LinkRegistered([h EXCEPT ![mods[k][2]] = module_link(@, mods)], mods, k + 1)

\* Netlist.link: the heap it leaves
netlist_link(h, pending, mods) == LinkRegistered(LinkPending(h, pending, mods), mods, 1)

\* the names of the modules the cells of module m are resolved to
ResolvedNames(h, m) ==
    {h[m.cells[i][2].module].name :
        i \in {j \in 1..Len(m.cells) : m.cells[j][2].module # NoModule}}

\* the names the cells of module m refer to, resolved or not
ReferencedNames(m) == {m.cells[i][2].module_name : i \in 1..Len(m.cells)}

\* a module counts as instantiated as soon as a cell names it
instantiated_by_name(h, mods) ==
    UNION {ReferencedNames(h[mods[k][2]]) : k \in 1..Len(mods)}

\* the first loop of get_top_modules
instantiated_modules(h, mods) ==
    UNION {ResolvedNames(h, h[mods[k][2]]) : k \in 1..Len(mods)}

\* the second loop of get_top_modules, from item k on
RECURSIVE NotInstantiated(_, _, _, _)
NotInstantiated(h, mods, k, instantiated) ==
    IF k > Len(mods) THEN <<>>
    ELSE (IF h[mods[k][2]].name \notin instantiated THEN <<mods[k][2]>> ELSE <<>>)
             \o NotInstantiated(h, mods, k + 1, instantiated)

get_top_modules(h, mods) == NotInstantiated(h, mods, 1, instantiated_modules(h, mods))

-----------------------------------------------------------------------------
(* The inputs of the preprocessor runs                                     *)

NL == <<"\n">>

SP == <<" ">>

\* the line  `word arg
DirLine(word, arg) == <<BT>> \o word \o SP \o arg \o NL

\* the line  `word
BareLine(word) == <<BT>> \o word \o NL

Quoted(s) == <<"\"">> \o s \o <<"\"">>

N_A == <<"A">>
N_B == <<"B">>
N_U == <<"U">>
N_W == <<"W">>
N_X == <<"X">>

\* the macro names the conditionals test
Names == {N_A, N_B}

\* the macro tables a Preproc is constructed with
InitDefines == { <<>>,
                 << <<N_A, <<"1">> >> >>,
                 << <<N_B, <<"2">> >> >>,
                 << <<N_A, <<"1">> >>, <<N_B, <<"2">> >> >> }

\* plain lines: no directive, no trailing backslash
L_a == <<"a", " ", "A", "\n">>
L_b == <<"b", "\n">>
L_c == <<"c", "\n">>
L_d == <<"d", "\n">>

PlainLines == {L_a, L_b}

\* all sequences over S of length at most n
SeqsUpTo(S, n) == UNION {[1..k -> S] : k \in 0..n}

\* n copies of a line
Copies(line, n) == [i \in 1..n |-> line]

\* the blocks of plain lines
Blocks == SeqsUpTo(PlainLines, MaxBlock)

\* the text  `kind X / block1 / `else / block2 / `endif
IfElseText(kind, X, block1, block2) ==
    DirLine(kind, X) \o Join(block1) \o BareLine(W_else) \o Join(block2)
        \o BareLine(W_endif)

IfElseTexts ==
    {IfElseText(kind, X, b1, b2) :
        kind \in {W_ifdef, W_ifndef}, X \in Names, b1 \in Blocks, b2 \in Blocks}

\* the `elsif branches of a chain: each  `elsif Y / n lines b
RECURSIVE ElsifText(_, _)
ElsifText(ys, n) ==
    IF ys = <<>> THEN <<>>
    ELSE DirLine(W_elsif, Head(ys)) \o Join(Copies(L_b, n)) \o ElsifText(Tail(ys), n)

\* the text  `ifdef X / n lines a / the `elsif branches / [`else / n lines c] / `endif
ChainText(X, ys, with_else, n) ==
    DirLine(W_ifdef, X) \o Join(Copies(L_a, n)) \o ElsifText(ys, n)
        \o (IF with_else THEN BareLine(W_else) \o Join(Copies(L_c, n)) ELSE <<>>)
        \o BareLine(W_endif)

ChainTexts ==
    {ChainText(X, ys, e, n) :
        X \in Names, ys \in SeqsUpTo(Names, MaxElsif) \ {<<>>},
        e \in BOOLEAN, n \in 1..MaxBlock}

\* the text  `k1 X / `k2 Y / n lines a / `endif / n lines b / `endif
NestedText(k1, X, k2, Y, n) ==
    DirLine(k1, X) \o DirLine(k2, Y) \o Join(Copies(L_a, n)) \o BareLine(W_endif)
        \o Join(Copies(L_b, n)) \o BareLine(W_endif)

NestedTexts ==
    {NestedText(k1, X, k2, Y, n) :
        k1 \in {W_ifdef, W_ifndef}, X \in Names,
        k2 \in {W_ifdef, W_ifndef}, Y \in Names, n \in 1..MaxBlock}

P_top == <<"t", "o", "p", ".", "v">>
P_x == <<"x", ".", "v">>
P_y == <<"y", ".", "v">>
P_inc_name == <<"i", "n", "c", ".", "v", "h">>
P_none == <<"n", "o", "n", "e", ".", "v", "h">>
P_missing == <<"n", "o", ".", "v">>
D_lib == <<"l", "i", "b">>
P_inc == D_lib \o <<"/">> \o P_inc_name
D_lib2 == <<"l", "i", "b", "2">>
D_sub == <<"s", "u", "b">>
P_v == <<"v", ".", "v", "h">>
P_u == <<"u", ".", "v", "h">>
P_o == <<"o", ".", "v", "h">>
P_n == <<"n", ".", "v", "h">>
P_m == <<"m", ".", "v", "h">>
P_abs == <<"/", "a", ".", "v", "h">>

\* x.v and y.v include each other
T_x == DirLine(W_include, Quoted(P_y)) \o <<"x", "\n">>
T_y == DirLine(W_include, Quoted(P_x)) \o <<"y", "\n">>

\* lib/inc.vh
T_inc == DirLine(W_define, N_W \o SP \o <<"8">>) \o <<"i", " ", "W", "\n">>

T_macros ==
    DirLine(W_define, N_W \o SP \o <<"8">>)
        \o <<"w", "i", "r", "e", " ", "[", "W", ":", "0", "]", " ",
             "W", "i", "d", "e", ";", "\n">>
        \o DirLine(W_undef, N_W) \o <<"W", "\n">> \o DirLine(W_undef, N_W)

T_include == DirLine(W_include, Quoted(P_inc_name)) \o <<"v", " ", "W", "\n">>

\* includes of a file beside top.v and in lib, of a file in lib and in lib2,
\* of a file in lib2 only, of an absolute path, of a file in sub that includes
\* a file of sub and of lib, and of a file that is nowhere
T_resolve ==
    DirLine(W_include, Quoted(P_v)) \o DirLine(W_include, Quoted(P_u))
        \o DirLine(W_include, Quoted(P_o)) \o DirLine(W_include, Quoted(P_abs))
        \o DirLine(W_include, Quoted(D_sub \o <<"/">> \o P_n))
        \o DirLine(W_include, Quoted(P_none)) \o <<"z", "\n">>

T_cyclic == DirLine(W_include, Quoted(P_x)) \o <<"z", "\n">>

T_noinclude == DirLine(W_include, Quoted(P_none)) \o <<"z", "\n">>

T_passthrough ==
    DirLine(<<"t", "i", "m", "e", "s", "c", "a", "l", "e">>, <<"1", "n", "s", "/", "1", "p", "s">>)
        \o DirLine(<<"l", "i", "n", "e">>, <<"1">>) \o DirLine(<<"p", "r", "a", "g", "m", "a">>, <<"p">>)
        \o DirLine(<<"b", "e", "g", "i", "n", "_", "k", "e", "y", "w", "o", "r", "d", "s">>, Quoted(<<"k">>)) \o BareLine(<<"e", "n", "d", "_", "k", "e", "y", "w", "o", "r", "d", "s">>)
        \o BareLine(<<"f", "o", "o">>)

T_continuation ==
    DirLine(W_define, N_X \o SP \o <<"a", " ", "\\">>) \o <<"b", "\n">>
        \o <<"c", "\\", "\n">>

T_inactive ==
    DirLine(W_ifdef, N_U) \o DirLine(W_define, N_A \o SP \o <<"1">>)
        \o DirLine(W_undef, N_B) \o DirLine(W_include, Quoted(P_x))
        \o DirLine(<<"t", "i", "m", "e", "s", "c", "a", "l", "e">>, <<"1", "n", "s">>) \o BareLine(<<"f", "o", "o">>)
        \o <<"q", " ", "\\", "\n">> \o BareLine(W_endif)

\* `define, `undef and `include in a branch that is taken, inside a branch
\* that is not
T_nested_inactive ==
    DirLine(W_ifdef, N_U) \o DirLine(W_ifndef, N_U)
        \o DirLine(W_define, N_X \o SP \o <<"1">>) \o DirLine(W_undef, N_B)
        \o DirLine(W_include, Quoted(P_v)) \o BareLine(W_endif) \o BareLine(W_endif)

T_orphans ==
    BareLine(W_else) \o DirLine(W_elsif, N_A) \o BareLine(W_endif) \o <<"e", "\n">>

T_duplicates ==
    DirLine(W_ifdef, N_A) \o BareLine(W_else) \o BareLine(W_else) \o <<"e", "\n">>
        \o DirLine(W_elsif, N_B) \o <<"f", "\n">> \o BareLine(W_endif)

T_malformed ==
    BareLine(W_ifdef) \o BareLine(W_define) \o BareLine(W_elsif) \o BareLine(W_endif)

T_unbalanced == DirLine(W_ifndef, N_A) \o <<"u", "\n">>

\* texts without a directive line: a macro name, an empty line, white space
\* at the end of a line and no line end at the end of the text; a backtick
\* that starts no directive; a backslash with a blank after it
T_text == <<"a", " ", "A", "\n", "\n", " ", "b", "\t", "\n", "c">>

T_backtick == <<"x", " ", BT, "y", "\n", BT, " ", "z", "\n">>

T_blank_after == <<"a", " ", "\\", " ", "\n", "b", "\n">>

\* `define A B / `define B C / A
T_chained ==
    DirLine(W_define, N_A \o SP \o N_B) \o DirLine(W_define, N_B \o SP \o <<"C">>)
        \o N_A \o NL

\* `define W 8 / W \ / x W$ W
T_joined ==
    DirLine(W_define, N_W \o SP \o <<"8">>) \o <<"W", " ", "\\", "\n">>
        \o <<"x", " ", "W", "$", " ", "W", "\n">>

MiscTexts == {T_macros, T_include, T_cyclic, T_noinclude, T_passthrough,
              T_continuation, T_inactive, T_orphans, T_duplicates, T_malformed,
              T_unbalanced, T_joined, T_chained, T_text, T_backtick,
              T_blank_after, T_resolve, T_nested_inactive}

\* the texts of top.v
InputTexts == IfElseTexts \cup ChainTexts \cup NestedTexts \cup MiscTexts

\* the files beside top.v
LibraryFiles ==
    (P_x :> T_x) @@ (P_y :> T_y) @@ (P_inc :> T_inc)
        @@ (P_v :> <<"r", "\n">>) @@ (PathJoin(D_lib, P_v) :> <<"l", "\n">>)
        @@ (PathJoin(D_lib, P_u) :> <<"1", "\n">>)
        @@ (PathJoin(D_lib2, P_u) :> <<"2", "\n">>)
        @@ (PathJoin(D_lib2, P_o) :> <<"o", "\n">>)
        @@ (P_abs :> <<"A", "\n">>)
        @@ (PathJoin(D_sub, P_n) :> DirLine(W_include, Quoted(P_m)))
        @@ (PathJoin(D_sub, P_m) :> <<"m", "\n">>)
        @@ (PathJoin(D_lib, P_m) :> <<"M", "\n">>)

\* the paths a top-level call is made on
TopFiles == {P_top, P_x, P_missing}

-----------------------------------------------------------------------------
(* Preproc: one preprocessor at work.  A step is one call of _process_line *)
(* by the innermost preprocess_stream in flight, or the start or the end   *)
(* of a preprocess_stream call.                                            *)

\* the state the handlers work on
PP == [defines |-> defines, conditional_stack |-> conditional_stack]

CurFrame == frames[Len(frames)]

CurLine == Head(CurFrame.lines)

\* the innermost stream has a line left
AtLine(kind) ==
    /\ status = "running"
    /\ CurFrame.lines # <<>>
    /\ LineKind(CurLine) = kind

\* the top frame after its current line was processed
Consumed(r) ==
    [frames EXCEPT ![Len(frames)] =
        [@ EXCEPT !.lines = Tail(@),
                  !.result = IF r.emit THEN @ \o r.text ELSE @]]

\* history: what the matched flag of each open conditional would be, had the
\* frames one.  matched_before: a branch before the current one had a true
\* condition; cond: the condition of the current branch
ChainOpen(cond) == [matched_before |-> FALSE, cond |-> cond]

ChainNext(c, cond) == [matched_before |-> c.matched_before \/ c.cond, cond |-> cond]

chain_step(ch, k, pp, line) ==
    CASE k = "ifdef" /\ HasNameArg(line) ->
           Append(ch, ChainOpen(IsDefined(pp.defines, NameArg(line))))
      [] k = "ifndef" /\ HasNameArg(line) ->
           Append(ch, ChainOpen(~IsDefined(pp.defines, NameArg(line))))
      [] k = "elsif" /\ pp.conditional_stack # <<>> /\ HasNameArg(line)
                     /\ ~Top(pp.conditional_stack).had_else ->
           [ch EXCEPT ![Len(ch)] = ChainNext(@, IsDefined(pp.defines, NameArg(line)))]
      [] k = "else" /\ pp.conditional_stack # <<>>
                    /\ ~Top(pp.conditional_stack).had_else ->
           [ch EXCEPT ![Len(ch)] = ChainNext(@, TRUE)]
      [] k = "endif" /\ pp.conditional_stack # <<>> -> ChopLast(ch)
      [] OTHER -> ch

\* the rest of preprocess_stream's loop body: result.append(processed_line)
Append_(r, ch) ==
    /\ defines' = r.pp.defines
    /\ conditional_stack' = r.pp.conditional_stack
    /\ frames' = Consumed(r)
    /\ chain' = ch
    /\ UNCHANGED <<fs, include_stack, include_paths, status, retval, ncalls, top_file>>
    /\ UNCHANGED <<nlvars, lexer, number>>

\* preprocess_stream's loop body: _process_line and result.append
ProcessLine ==
    Append_(process_line(PP, CurLine), chain_step(chain, LineKind(CurLine), PP, CurLine))

\* a new preprocess_stream call on an open file: include_stack.append(filename)
NewFrame_(path) == [filename |-> path, lines |-> SplitLines(fs[path]), result |-> <<>>]

\* preprocess_file(path), a top-level call
PreprocessFile(path) ==
    /\ status \in {"idle", "returned", "raised"}
    /\ ncalls < MaxCalls
    /\ ncalls' = ncalls + 1
    /\ top_file' = path
    /\ retval' = <<>>
    /\ IF Exists(fs, path)
       THEN /\ status' = "running"
            /\ frames' = <<NewFrame_(path)>>
            /\ include_stack' = Append(include_stack, path)
       ELSE \* FileNotFoundError
            /\ status' = "raised"
            /\ UNCHANGED <<frames, include_stack>>
    /\ UNCHANGED <<fs, defines, conditional_stack, include_paths, chain>>
    /\ UNCHANGED <<nlvars, lexer, number>>

Continuation == AtLine("continuation") /\ ProcessLine

Define == AtLine("define") /\ ProcessLine

Undef == AtLine("undef") /\ ProcessLine

Ifdef == AtLine("ifdef") /\ ProcessLine

Ifndef == AtLine("ifndef") /\ ProcessLine

Else == AtLine("else") /\ ProcessLine

Elsif == AtLine("elsif") /\ ProcessLine

Endif == AtLine("endif") /\ ProcessLine

PassThrough == AtLine("pass_through") /\ ProcessLine

UnknownDirective == AtLine("unknown") /\ ProcessLine

PlainLine == AtLine("plain") /\ ProcessLine

\* a variant whose pop is not in a finally clause
IncludeFile_no_finally(t) ==
    IF t = NoPath
    THEN /\ frames' = Consumed(None(PP))
         /\ UNCHANGED <<include_stack, status>>
    ELSE IF Len(frames) < RecursionLimit
    THEN /\ frames' = Append(Consumed(None(PP)), NewFrame_(t))
         /\ include_stack' = Append(include_stack, t)
         /\ UNCHANGED status
    ELSE /\ frames' = <<>>
         /\ status' = "raised"
         /\ UNCHANGED include_stack

\* _handle_include once the file to read is known: None at once, or a nested
\* preprocess_stream call, which the interpreter refuses with RecursionError
\* when the calls are too deep; the exception leaves every preprocess_stream
\* in flight through its finally
IncludeFile(t) ==
    IF t = NoPath
    THEN /\ frames' = Consumed(None(PP))
         /\ UNCHANGED <<include_stack, status>>
    ELSE IF Len(frames) < RecursionLimit
    THEN /\ frames' = Append(Consumed(None(PP)), NewFrame_(t))
         /\ include_stack' = Append(include_stack, t)
         /\ UNCHANGED status
    ELSE /\ frames' = <<>>
         /\ include_stack' = Take(include_stack, Len(include_stack) - Len(frames))
         /\ status' = "raised"

Include ==
    /\ AtLine("include")
    /\ IncludeFile(include_target(fs, include_paths, PP, CurLine, CurFrame.filename))
    /\ UNCHANGED <<fs, defines, conditional_stack, include_paths, retval, ncalls,
                   top_file, chain>>
    /\ UNCHANGED <<nlvars, lexer, number>>

\* the end of a preprocess_stream call: include_stack.pop() and the joined
\* result, returned to the caller or appended by the including stream
StreamEnd ==
    /\ status = "running"
    /\ CurFrame.lines = <<>>
    /\ include_stack' = Take(include_stack, Len(include_stack) - 1)
    /\ IF Len(frames) = 1
       THEN /\ status' = "returned"
            /\ retval' = CurFrame.result
            /\ frames' = <<>>
       ELSE /\ frames' = [Take(frames, Len(frames) - 1) EXCEPT ![Len(frames) - 1] =
                            [@ EXCEPT !.result = @ \o CurFrame.result]]
            /\ UNCHANGED <<status, retval>>
    /\ UNCHANGED <<fs, defines, conditional_stack, include_paths, ncalls, top_file, chain>>
    /\ UNCHANGED <<nlvars, lexer, number>>

\* a Netlist that is not used
NetlistIdle ==
    /\ modules = <<>>
    /\ heap = <<>>
    /\ need_link = <<>>
    /\ files = <<>>
    /\ sig = NewSig
    /\ top_modules = <<>>
    /\ nl_last = "none"
    /\ linked = TRUE
    /\ cells_linked = TRUE

\* Preproc(defines, include_paths) and the files on disk
InitPreproc ==
    /\ fs \in {LibraryFiles @@ (P_top :> t) : t \in InputTexts}
    /\ defines \in InitDefines
    /\ include_paths = <<D_lib, D_lib2>>
    /\ conditional_stack = <<>>
    /\ include_stack = <<>>
    /\ frames = <<>>
    /\ status = "idle"
    /\ retval = <<>>
    /\ ncalls = 0
    /\ top_file = NoPath
    /\ chain = <<>>
    /\ NetlistIdle
    /\ lexer = LexerIdle
    /\ number = NoCall(<<>>)

NextPreproc ==
    \/ \E path \in TopFiles : PreprocessFile(path)
    \/ Continuation
    \/ Define
    \/ Undef
    \/ Include
    \/ Ifdef
    \/ Ifndef
    \/ Else
    \/ Elsif
    \/ Endif
    \/ PassThrough
    \/ UnknownDirective
    \/ PlainLine
    \/ StreamEnd

SpecPreproc == InitPreproc /\ [][NextPreproc]_vars

-----------------------------------------------------------------------------
(* Preproc: properties of conditional compilation                          *)

\* a top-level preprocess_file call on top.v has returned
Returned == status = "returned" /\ top_file = P_top

\* the first top-level call of the preprocessor, on top.v, has returned
FirstReturned == Returned /\ ncalls = 1

\* the lines of a block, each macro-expanded
ExpandBlock(defs, block) ==
    Join([i \in 1..Len(block) |-> expand_defines(defs, block[i])])

(* C1: for a fresh preprocessor and the input  `ifdef X / block1 / `else /   *)
(* block2 / `endif  with blocks of plain lines, the output is exactly the    *)
(* macro-expanded lines of block1 when X is in the macro table, and exactly  *)
(* those of block2 when it is not.                                           *)
C1_IfdefElseEmitsOneBlock ==
    \A X \in Names, b1 \in Blocks, b2 \in Blocks :
        (FirstReturned /\ fs[P_top] = IfElseText(W_ifdef, X, b1, b2))
            => retval = IF IsDefined(defines, X) THEN ExpandBlock(defines, b1)
                        ELSE ExpandBlock(defines, b2)

\* X is defined, block1 holds a macro and block2 is not empty: block1 came
\* out expanded and block2 did not come out
C1_Witness ==
    /\ FirstReturned
    /\ fs[P_top] = IfElseText(W_ifdef, N_A, <<L_a>>, <<L_b>>)
    /\ IsDefined(defines, N_A)
    /\ retval = <<"a", " ", "1", "\n">>

(* C2: for the chain  `ifdef A / A-block / `elsif B / B-block / `else /      *)
(* else-block / `endif:  with A undefined and B defined only the B-block is  *)
(* emitted; with A and B both defined only the A-block is (first match wins) *)
C2_ElsifFirstMatchWins ==
    \A n \in 1..MaxBlock :
        (FirstReturned /\ fs[P_top] = ChainText(N_A, <<N_B>>, TRUE, n)
                       /\ IsDefined(defines, N_B))
            => retval = IF IsDefined(defines, N_A)
                        THEN ExpandBlock(defines, Copies(L_a, n))
                        ELSE ExpandBlock(defines, Copies(L_b, n))

\* every frame of the conditional stack is active
AllActive == \A i \in 1..Len(conditional_stack) : conditional_stack[i].active

(* C3: a non-directive line is emitted only if every frame on the            *)
(* conditional stack is active; a line of an inner conditional whose         *)
(* condition holds, nested in an inactive outer branch, is dropped.          *)
C3_EmitOnlyIfAllFramesActive ==
    [][(PlainLine /\ process_plain(PP, CurLine).emit) => AllActive]_vars

(* C4: within one conditional chain, once a branch has matched every later   *)
(* `elsif and the `else is inactive whatever its own condition, and the      *)
(* `else is active iff no earlier branch matched.                            *)
C4_AtMostOneBranchActive ==
    \A i \in 1..Len(conditional_stack) :
        /\ chain[i].matched_before => ~conditional_stack[i].active
        /\ conditional_stack[i].had_else =>
               (conditional_stack[i].active <=> ~chain[i].matched_before)

\* no path is on the include stack twice
NoReentry ==
    \A i, j \in 1..Len(include_stack) :
        i # j => include_stack[i] # include_stack[j]

(* C9: preprocessing a cyclic include terminates: re-entering a path that    *)
(* is already on the stack of in-flight include paths is rejected, nothing   *)
(* is emitted for the directive and no recursion happens.                    *)
C9_CyclicIncludeRejected == NoReentry /\ (top_file = P_x => status # "raised")

(* C10: when the conditional stack is not empty at the end of a top-level    *)
(* file, the call does not return normally.                                  *)
C10_UnbalancedIsFailure == status = "returned" => conditional_stack = <<>>

-----------------------------------------------------------------------------
(* Preproc: properties of macro expansion                                  *)

\* the macro table holds W with the value 8
W_is_8 == IsDefined(defines, N_W) /\ Lookup(defines, N_W) = <<"8">>

\* name occurs in text as a whole word
HasWord(text, name) == \E i \in 1..Len(text) : WordAt(text, i, name)

N_Wide == <<"W", "i", "d", "e">>

(* C11: while W is defined as 8, every non-directive line met with all       *)
(* conditional frames active is emitted with no whole-word occurrence of W   *)
(* left, and with the identifier Wide kept where the line has it.            *)
C11_WholeWordReplaced ==
    [][((PlainLine \/ Continuation) /\ ~IsDirective(CurLine) /\ AllActive /\ W_is_8)
          => /\ process_line(PP, CurLine).emit
             /\ ~HasWord(process_line(PP, CurLine).text, N_W)
             /\ HasWord(CurLine, N_Wide)
                    => HasWord(process_line(PP, CurLine).text, N_Wide)]_vars

(* C12: macro expansion is one pass that does not scan the text it has put   *)
(* in: with A defined as B and B defined as C, whatever the order of the two *)
(* in the macro table, the line  A  comes out as  B.                         *)
C12_ExpansionNotRescanned ==
    (Returned /\ fs[P_top] = T_chained) => retval = N_B \o NL

-----------------------------------------------------------------------------
(* Preproc: properties of a whole call                                     *)

\* the first call of a preprocessor constructed with no macro has returned
FreshReturned == FirstReturned /\ defines = <<>>

\* no line of text is a directive line
NoDirectiveLine(text) ==
    \A i \in 1..Len(SplitLines(text)) : ~IsDirective(SplitLines(text)[i])

\* the last character of the line, its line end aside, is a backslash
BackslashTerminated(line) ==
    /\ RStripNewline(line) # <<>>
    /\ RStripNewline(line)[Len(RStripNewline(line))] = "\\"

\* the last character of the line that is no white space is a backslash
BackslashLast(line) == IsContinuation(line)

(* C13, as stated: a fresh preprocessor with an empty macro table returns    *)
(* unchanged a text that has no directive line and no line that ends in a    *)
(* backslash.                                                                *)
C13_RoundTripAsStated ==
    (/\ FreshReturned
     /\ NoDirectiveLine(fs[P_top])
     /\ \A i \in 1..Len(SplitLines(fs[P_top])) :
            ~BackslashTerminated(SplitLines(fs[P_top])[i]))
        => retval = fs[P_top]

(* C13, amended: a fresh preprocessor with an empty macro table returns      *)
(* unchanged a text that has no directive line and no line whose last        *)
(* character that is no white space is a backslash.                          *)
C13_RoundTrip ==
    (/\ FreshReturned
     /\ NoDirectiveLine(fs[P_top])
     /\ \A i \in 1..Len(SplitLines(fs[P_top])) :
            ~BackslashLast(SplitLines(fs[P_top])[i]))
        => retval = fs[P_top]

\* a text of four lines, the last without a line end, came back as it was
C13_Witness ==
    /\ FreshReturned
    /\ fs[P_top] = T_text
    /\ retval = T_text

(* C20: every top-level preprocess_file call starts with an empty            *)
(* conditional stack, whatever an earlier call has left open.                *)
C20_CallStartsWithEmptyStack ==
    [][(\E path \in TopFiles : PreprocessFile(path)) => conditional_stack' = <<>>]_vars

-----------------------------------------------------------------------------
(* Preproc: properties of `include                                         *)

\* the candidates of an include, in the order of the claim
Candidates(paths, include_file, current_file) ==
    (IF IsAbs(include_file) THEN <<include_file>> ELSE <<>>)
        \o <<PathJoin(DirName(current_file), include_file)>>
        \o [k \in 1..Len(paths) |-> PathJoin(paths[k], include_file)]

\* the first candidate that exists, or NoPath
FirstExisting(fsys, cands) ==
    IF \E i \in 1..Len(cands) : Exists(fsys, cands[i])
    THEN cands[CHOOSE i \in 1..Len(cands) :
                  /\ Exists(fsys, cands[i])
                  /\ \A k \in 1..(i - 1) : ~Exists(fsys, cands[k])]
    ELSE NoPath

\* the stream is at an `include "file" line that is not skipped, with room
\* for one more stream
IncludeStep ==
    /\ Include
    /\ HasIncludeArg(CurLine)
    /\ ~Inactive(conditional_stack)
    /\ Len(frames) < RecursionLimit

\* the file of the claim for the include the stream is at
ClaimedFile ==
    FirstExisting(fs, Candidates(include_paths, IncludeArg(CurLine), CurFrame.filename))

-----------------------------------------------------------------------------
(* Preproc: properties of the directives in and out of a skipped region    *)

\* the innermost stream is about to process a line
AtSomeLine == status = "running" /\ CurFrame.lines # <<>>

\* the step consumes the line of the innermost stream, adds nothing to its
\* result and starts no stream
EmitsNothing == frames' = [frames EXCEPT ![Len(frames)].lines = Tail(@)]

\* the line is `word followed by a name
IsNamed(line, word) ==
    IsDirective(line) /\ DirectiveWord(line) = word /\ HasNameArg(line)

(* C24: where every frame is active, a line `define NAME text sets NAME to   *)
(* the text as written and emits nothing, and a line `undef NAME removes     *)
(* NAME, if it is defined, and emits nothing.                                *)
C24_DefineAndUndef ==
    [][(AtSomeLine /\ AllActive) =>
         /\ (IsNamed(CurLine, W_define) /\ HasDefineArg(CurLine)) =>
              /\ defines' = DictSet(defines, NameArg(CurLine), DefineValue(CurLine))
              /\ EmitsNothing
         /\ IsNamed(CurLine, W_undef) =>
              /\ defines' = DictDel(defines, NameArg(CurLine))
              /\ EmitsNothing]_vars

(* C28: while the innermost frame of the conditional stack is inactive, a    *)
(* plain line, a line that ends in a backslash, a pass-through directive and *)
(* an unknown directive emit nothing.                                        *)
C28_InactiveEmitsNothing ==
    [][(/\ AtSomeLine
        /\ Inactive(conditional_stack)
        /\ LineKind(CurLine) \in {"plain", "continuation", "pass_through", "unknown"})
         => EmitsNothing]_vars

(* C29: while a frame of the conditional stack is inactive, `define, `undef  *)
(* and `include leave the macro table as it is, read no file and emit        *)
(* nothing.                                                                  *)
C29_InactiveDirectivesNoEffect ==
    [][(/\ AtSomeLine
        /\ ~AllActive
        /\ IsDirective(CurLine)
        /\ DirectiveWord(CurLine) \in {W_define, W_undef, W_include})
         => (defines' = defines /\ EmitsNothing)]_vars

\* the line is an `else, `elsif or `endif without an open conditional, or an
\* `else or `elsif of a conditional that had its `else
OrphanOrDuplicate ==
    \/ /\ LineKind(CurLine) \in {"else", "elsif", "endif"}
       /\ conditional_stack = <<>>
    \/ /\ LineKind(CurLine) \in {"else", "elsif"}
       /\ conditional_stack # <<>>
       /\ Top(conditional_stack).had_else

MacroValue(defs, name) == defs[CHOOSE i \in 1..Len(defs) : defs[i][1] = name][2]

(* C31: after top.v = `define X a \ / b / c\ was preprocessed, X is defined   *)
(* as the text of the line joined with the next one, the backslash replaced  *)
(* by one space, and no part of the directive is in the output.              *)
C31_ContinuedDefineIsOneDirective ==
    (FirstReturned /\ fs[P_top] = T_continuation) =>
        /\ IsDefined(defines, N_X)
        /\ MacroValue(defines, N_X) = <<"a", " ", " ", "b">>
        /\ \A i \in 1..Len(retval) : retval[i] # BT

\* the files of the preprocess_stream calls in flight, outermost first
InFlight == [i \in 1..Len(frames) |-> frames[i].filename]

(* C38: while a top-level preprocess_file call runs, include_stack lists the *)
(* files of the streams in flight from the outermost to the innermost; when  *)
(* the call has returned or raised, include_stack is empty, as it was before *)
(* the call.                                                                 *)
C38_IncludeStackBalanced ==
    /\ status = "running" => include_stack = InFlight /\ include_stack # <<>>
    /\ status # "running" => include_stack = <<>>

\* preprocess_file of x.v, which includes y.v, which includes x.v, has raised
\* and the stack is empty
C38_Witness ==
    /\ status = "raised"
    /\ top_file = P_x
    /\ include_stack = <<>>

-----------------------------------------------------------------------------
(* Netlist: one Netlist at work.  A step is one call of read_file, of      *)
(* Module.add_cell, of link or of get_top_modules.                         *)

P_a == <<"a", ".", "v">>
P_b == <<"b", ".", "v">>
P_e == <<"e", ".", "v">>

\* module A; B inst(); endmodule
T_a ==
    <<"m", "o", "d", "u", "l", "e", " ", "A", ";", " ", "B", " ", "i", "n",
      "s", "t", "(", ")", ";", " ", "e", "n", "d", "m", "o", "d", "u", "l",
      "e">>

\* module B; endmodule
T_b ==
    <<"m", "o", "d", "u", "l", "e", " ", "B", ";", " ", "e", "n", "d", "m",
      "o", "d", "u", "l", "e">>

\* a file without a module: a comment and three declarations
T_e ==
    <<"/", "/", " ", "n", "o", "n", "e", "\n", "i", "n", "p", "u", "t", " ",
      "i", ";", "\n", "w", "i", "r", "e", " ", "w", ";", "\n", "p", "a", "r",
      "a", "m", "e", "t", "e", "r", " ", "N", " ", "=", " ", "1", ";", "\n">>

P_two == <<"t", "w", "o", ".", "v">>

\* a file with a macro and two modules:
\* `define B Z
\* module C; input p; endmodule
\* module D; wire q; endmodule
T_two ==
    DirLine(W_define, N_B \o SP \o <<"Z">>)
        \o <<"m", "o", "d", "u", "l", "e", " ", "C", ";", " ", "i", "n", "p", "u",
             "t", " ", "p", ";", " ", "e", "n", "d", "m", "o", "d", "u", "l", "e",
             "\n">>
        \o <<"m", "o", "d", "u", "l", "e", " ", "D", ";", " ", "w", "i", "r", "e",
             " ", "q", ";", " ", "e", "n", "d", "m", "o", "d", "u", "l", "e", "\n">>

\* the files on disk
NetlistFiles ==
    (P_a :> T_a) @@ (P_b :> T_b) @@ (P_e :> T_e) @@ (P_x :> T_x) @@ (P_y :> T_y)
        @@ (P_two :> T_two)

\* the paths read_file is called on
ReadPaths == {P_a, P_b, P_e, P_x, P_missing, P_two}

N_inst == <<"i", "n", "s", "t">>
N_u == <<"u">>
N_Z == <<"Z">>

\* the cell names and the module names add_cell is called with
CellNames == {N_inst, N_u}

CellModuleNames == {N_B, N_Z}

\* Netlist(): Preproc() and SigParser() inside
NewNetlist ==
    /\ fs = NetlistFiles
    /\ defines = <<>>
    /\ include_paths = <<>>
    /\ conditional_stack = <<>>
    /\ include_stack = <<>>
    /\ frames = <<>>
    /\ status = "idle"
    /\ retval = <<>>
    /\ ncalls = 0
    /\ top_file = NoPath
    /\ chain = <<>>
    /\ NetlistIdle

InitNetlist == NewNetlist /\ lexer = LexerIdle /\ number = NoCall(<<>>)

\* _parse_file_content and the rest of read_file's try block
ParseFileContent(filename, content, module_info) ==
    /\ sig' = module_info
    /\ files' = DictSet(files, filename, content)
    /\ IF module_info.current_module # NoName
       THEN /\ heap' = Append(heap, NewModule(module_info, filename))
            /\ modules' = DictSet(modules, module_info.current_module, Len(heap) + 1)
            /\ need_link' = Append(need_link, Len(heap) + 1)
            /\ linked' = FALSE
       ELSE UNCHANGED <<heap, modules, need_link, linked>>

\* read_file after preprocess_file: an exception is caught and reported
Preprocessed(filename, r) ==
    /\ defines' = r.pp.defines
    /\ conditional_stack' = r.pp.conditional_stack
    /\ IF r.raised
       THEN UNCHANGED <<heap, modules, need_link, files, sig, linked>>
       ELSE ParseFileContent(filename, r.out, parse(r.out, sig))

ReadFile_tracks_missing(filename) ==
    /\ ncalls < MaxCalls
    /\ ncalls' = ncalls + 1
    /\ IF Exists(fs, filename)
       THEN Preprocessed(filename, preprocess_file(fs, include_paths, PP, filename))
       ELSE /\ files' = DictSet(files, filename, <<>>)
            /\ UNCHANGED <<defines, conditional_stack, heap, modules, need_link,
                           sig, linked>>
    /\ nl_last' = "read_file"
    /\ top_modules' = <<>>
    /\ UNCHANGED <<fs, include_stack, include_paths, frames, status, retval, top_file,
                   chain, lexer, cells_linked, number>>

\* Netlist.read_file(filename)
ReadFile(filename) ==
    /\ ncalls < MaxCalls
    /\ ncalls' = ncalls + 1
    /\ IF Exists(fs, filename)
       THEN Preprocessed(filename, preprocess_file(fs, include_paths, PP, filename))
       ELSE \* FileNotFoundError, caught
            UNCHANGED <<defines, conditional_stack, heap, modules, need_link, files,
                        sig, linked>>
    /\ nl_last' = "read_file"
    /\ top_modules' = <<>>
    /\ UNCHANGED <<fs, include_stack, include_paths, frames, status, retval, top_file,
                   chain, lexer, cells_linked, number>>

\* the number of cells of the Module objects o..Len(h)
RECURSIVE CountCells(_, _)
CountCells(h, o) ==
    IF o > Len(h) THEN 0 ELSE Len(h[o].cells) + CountCells(h, o + 1)

\* module.add_cell(name, module_name) on Module object o
AddCell(o, name, module_name) ==
    /\ o \in 1..Len(heap)
    /\ CountCells(heap, 1) < MaxCells \/ IsDefined(heap[o].cells, name)
    /\ heap' = [heap EXCEPT ![o].cells = DictSet(@, name, NewCell(module_name))]
    /\ nl_last' = "add_cell"
    /\ top_modules' = <<>>
    /\ cells_linked' = FALSE
    /\ UNCHANGED <<modules, need_link, files, sig, linked>>
    /\ UNCHANGED <<fs, ppvars, lexer, number>>

\* Netlist.link()
Link ==
    /\ heap' = netlist_link(heap, need_link, modules)
    /\ need_link' = <<>>
    /\ linked' = TRUE
    /\ cells_linked' = TRUE
    /\ nl_last' = "link"
    /\ top_modules' = <<>>
    /\ UNCHANGED <<modules, files, sig>>
    /\ UNCHANGED <<fs, ppvars, lexer, number>>

\* Netlist.get_top_modules()
GetTopModules ==
    /\ top_modules' = get_top_modules(heap, modules)
    /\ nl_last' = "get_top_modules"
    /\ UNCHANGED <<modules, heap, need_link, files, sig, linked, cells_linked>>
    /\ UNCHANGED <<fs, ppvars, lexer, number>>

NextNetlist ==
    \/ \E filename \in ReadPaths : ReadFile(filename)
    \/ \E o \in 1..Len(heap), name \in CellNames, module_name \in CellModuleNames :
           AddCell(o, name, module_name)
    \/ Link
    \/ GetTopModules

SpecNetlist == InitNetlist /\ [][NextNetlist]_vars

-----------------------------------------------------------------------------
(* Netlist: properties of linking and of top-module inference              *)

\* module name is registered
Registered(name) == IsDefined(modules, name)

\* the registered Module objects
RegisteredObjects == {modules[k][2] : k \in 1..Len(modules)}

\* the cells of the registered modules, as <<Module object, index>>
RegisteredCells ==
    UNION {{<<o, i>> : i \in 1..Len(heap[o].cells)} : o \in RegisteredObjects}

\* the cell a pair stands for
CellOf(c) == heap[c[1]].cells[c[2]][2]

\* the paths read so far
FilesRead == {files[k][1] : k \in 1..Len(files)}

\* the elements of a sequence
Range(seq) == {seq[i] : i \in 1..Len(seq)}

(* C5: with a.v = module A; B inst(); endmodule and b.v = module B;          *)
(* endmodule, after read_file of both and link(), module A has a cell inst   *)
(* that references B and is resolved to the registered module B, and         *)
(* get_top_modules() returns exactly [A].                                    *)
C5_ReadLinkHierarchy ==
    (FilesRead = {P_a, P_b} /\ linked /\ nl_last \in {"link", "get_top_modules"})
        => /\ Registered(N_A) /\ Registered(N_B)
           /\ IsDefined(heap[Lookup(modules, N_A)].cells, N_inst)
           /\ Lookup(heap[Lookup(modules, N_A)].cells, N_inst) =
                  [module_name |-> N_B, module |-> Lookup(modules, N_B)]
           /\ nl_last = "get_top_modules" => top_modules = <<Lookup(modules, N_A)>>

(* C6: after link() returns, every cell of every registered module whose     *)
(* module_name is a key of the module table is resolved to exactly the       *)
(* module registered under that name, and every other cell is unresolved.    *)
C6_LinkResolvesByName ==
    nl_last = "link" =>
        \A c \in RegisteredCells :
            CellOf(c).module = IF Registered(CellOf(c).module_name)
                               THEN Lookup(modules, CellOf(c).module_name)
                               ELSE NoModule

\* link() has resolved one cell and left another, of an unknown module, alone
C6_Witness ==
    /\ nl_last = "link"
    /\ \E c \in RegisteredCells :
           Registered(CellOf(c).module_name) /\ CellOf(c).module # NoModule
    /\ \E c \in RegisteredCells :
           ~Registered(CellOf(c).module_name) /\ CellOf(c).module = NoModule

\* no cell of a registered module is resolved to Module object o
Unreferenced(o) == \A c \in RegisteredCells : CellOf(c).module # o

(* C7: after link(), get_top_modules() returns exactly the registered        *)
(* modules to which no cell of the netlist resolves, each once, computed     *)
(* from the cells and modules as they are at the call.                       *)
C7_TopModulesAfterLink ==
    (nl_last = "get_top_modules" /\ linked) =>
        /\ Range(top_modules) = {o \in RegisteredObjects : Unreferenced(o)}
        /\ Len(top_modules) = Cardinality(Range(top_modules))

\* after link(), one registered module is returned and another, to which a
\* cell resolves, is not
C7_Witness ==
    /\ nl_last = "get_top_modules"
    /\ linked
    /\ top_modules # <<>>
    /\ \E o \in RegisteredObjects : ~Unreferenced(o) /\ o \notin Range(top_modules)

\* the netlist of the test: module A with one cell, which references B, and
\* module B without cells, both registered
OneCellReferencesB ==
    /\ {modules[k][1] : k \in 1..Len(modules)} = {N_A, N_B}
    /\ Len(heap[Lookup(modules, N_A)].cells) = 1
    /\ heap[Lookup(modules, N_A)].cells[1][2].module_name = N_B
    /\ heap[Lookup(modules, N_B)].cells = <<>>

(* C8: get_top_modules() returns exactly the registered modules that no cell *)
(* instantiates, also when link() has not been called: with module1 holding  *)
(* a cell that references registered module2, the result is [module1].       *)
C8_TopModulesWithoutLink ==
    (nl_last = "get_top_modules" /\ Registered(N_A) /\ Registered(N_B)
                                 /\ OneCellReferencesB)
        => top_modules = <<Lookup(modules, N_A)>>

N_C == <<"C">>
N_D == <<"D">>

\* the names of a dict
Keys(dict) == {dict[k][1] : k \in 1..Len(dict)}

(* C16: read_file of two.v, which holds the blocks of module C (one port, p)  *)
(* and of module D (one net, q), registers both modules, each with the       *)
(* declarations of its own block only.                                       *)
C16_AllModulesRegistered ==
    P_two \in FilesRead =>
        /\ Registered(N_C) /\ Registered(N_D)
        /\ Keys(heap[Lookup(modules, N_C)].ports) = {<<"p">>}
        /\ Keys(heap[Lookup(modules, N_C)].nets) = {}
        /\ Keys(heap[Lookup(modules, N_D)].ports) = {}
        /\ Keys(heap[Lookup(modules, N_D)].nets) = {<<"q">>}

\* the cells of Module object o as link() cannot change them: the names and
\* the module names
CellReferences(o) ==
    [i \in 1..Len(heap[o].cells) |->
        <<heap[o].cells[i][1], heap[o].cells[i][2].module_name>>]

(* C17: a link() call returns, leaves every cell of a registered module      *)
(* whose module name is not registered unresolved, and leaves the module     *)
(* table and the ports, nets, parameters and cells of the registered modules *)
(* as they were.                                                             *)
C17_UnknownReferenceLeftAlone ==
    [][Link =>
        /\ nl_last' = "link"
        /\ modules' = modules
        /\ \A c \in RegisteredCells :
               ~Registered(CellOf(c).module_name) => CellOf(c)'.module = NoModule
        /\ \A o \in RegisteredObjects :
               /\ heap'[o].name = heap[o].name
               /\ heap'[o].ports = heap[o].ports
               /\ heap'[o].nets = heap[o].nets
               /\ heap'[o].parameters = heap[o].parameters
               /\ CellReferences(o)' = CellReferences(o)]_vars

\* link() has returned and a cell of registered module B refers to Z, which
\* is not registered, and is unresolved
C17_Witness ==
    /\ nl_last = "link"
    /\ Registered(N_B) /\ ~Registered(N_Z)
    /\ \E i \in 1..Len(heap[Lookup(modules, N_B)].cells) :
           heap[Lookup(modules, N_B)].cells[i][2] =
               [module_name |-> N_Z, module |-> NoModule]

(* C18, as stated: a link() call with no module registered since the last   *)
(* link() changes no cell's resolved module and no module-table entry; any   *)
(* link() call resolves each cell whose module name is registered and        *)
(* leaves each resolved cell resolved to the module it was resolved to.      *)
C18_RelinkAsStated ==
    [][Link =>
        /\ modules' = modules
        /\ \A c \in RegisteredCells :
               /\ linked => CellOf(c)'.module = CellOf(c).module
               /\ Registered(CellOf(c).module_name) => CellOf(c)'.module # NoModule
               /\ CellOf(c).module # NoModule
                      => CellOf(c)'.module = CellOf(c).module]_vars

\* Module object o is the module registered under its name
IsRegisteredModule(o) ==
    Registered(heap[o].name) /\ Lookup(modules, heap[o].name) = o

(* C18, amended: a link() call with no module registered and no cell added   *)
(* since the last link() changes no cell's resolved module and no            *)
(* module-table entry; any link() call resolves each cell whose module name  *)
(* is registered and leaves each cell resolved to a module that is still the *)
(* one registered under its name resolved to that module.                    *)
C18_Relink ==
    [][Link =>
        /\ modules' = modules
        /\ \A c \in RegisteredCells :
               /\ (linked /\ cells_linked) => CellOf(c)'.module = CellOf(c).module
               /\ Registered(CellOf(c).module_name) => CellOf(c)'.module # NoModule
               /\ (CellOf(c).module # NoModule /\ IsRegisteredModule(CellOf(c).module))
                      => CellOf(c)'.module = CellOf(c).module]_vars

\* link() has run after a.v and b.v were read, in this order: the cell of A
\* that refers to B is resolved to B, and a cell that refers to Z is not
C18_Witness ==
    /\ nl_last = "link"
    /\ linked /\ cells_linked
    /\ Registered(N_A) /\ Registered(N_B)
    /\ Lookup(modules, N_A) < Lookup(modules, N_B)
    /\ \E i \in 1..Len(heap[Lookup(modules, N_A)].cells) :
           heap[Lookup(modules, N_A)].cells[i][2] =
               [module_name |-> N_B, module |-> Lookup(modules, N_B)]
    /\ \E c \in RegisteredCells : CellOf(c).module = NoModule

(* C19: what read_file gets from the preprocessor for a file is what a       *)
(* preprocessor with the configured macros alone, here none, makes of that   *)
(* file: no macro defined while an earlier file was read is applied.         *)
C19_NoMacroLeak ==
    \A k \in 1..Len(files) :
        files[k][2] =
            preprocess_file(fs, include_paths,
                            [defines |-> <<>>, conditional_stack |-> <<>>],
                            files[k][1]).out

\* the Netlist after one read_file call, of a path that does not exist
AfterMissingFile ==
    /\ ncalls = 1 /\ nl_last = "read_file"
    /\ files = <<>> /\ modules = <<>> /\ heap = <<>>

(* C22: read_file of a path that does not exist registers no module and      *)
(* leaves the registered modules, their objects and the file table as they   *)
(* were; read_file of a.v after it registers module A of a.v and enters a.v  *)
(* in the file table.                                                        *)
C22_MissingFileChangesNothing ==
    [][/\ (\E f \in ReadPaths : ~Exists(fs, f) /\ ReadFile(f)) =>
            /\ modules' = modules /\ heap' = heap /\ files' = files
            /\ need_link' = need_link
       /\ (AfterMissingFile /\ ReadFile(P_a)) =>
            /\ Keys(modules') = {N_A}
            /\ heap'[Lookup(modules', N_A)].name = N_A
            /\ heap'[Lookup(modules', N_A)].filename = P_a
            /\ FilesRead' = {P_a}]_vars

\* a.v was read after a path that does not exist
C22_Witness ==
    /\ ncalls = 2 /\ nl_last = "read_file"
    /\ FilesRead = {P_a} /\ Registered(N_A)
    /\ Len(heap) = 1

\* the cells of all Module objects, registered or not, as <<Module object, index>>
AllCells == UNION {{<<o, i>> : i \in 1..Len(heap[o].cells)} : o \in 1..Len(heap)}

\* cell c was there before the step, with the same name
SameCellBefore(c) ==
    /\ c[1] <= Len(heap) /\ c[2] <= Len(heap[c[1]].cells)
    /\ heap[c[1]].cells[c[2]][1] = heap'[c[1]].cells[c[2]][1]

(* C36: no call but link() makes a cell resolved: after a call that is not   *)
(* link() a resolved cell is a cell that was resolved to the same module     *)
(* before; a resolved cell, of any Module object, points to a module whose   *)
(* name is the cell's module_name; and when link() has returned every        *)
(* resolved cell of a registered module points to the module registered      *)
(* under that name.                                                          *)
C36_ResolvedOnlyByLink ==
    [][/\ nl_last' # "link" =>
            \A c \in AllCells' :
                CellOf(c)'.module # NoModule =>
                    SameCellBefore(c) /\ CellOf(c).module = CellOf(c)'.module
       /\ \A c \in AllCells' :
              CellOf(c)'.module # NoModule =>
                  heap'[CellOf(c)'.module].name = CellOf(c)'.module_name
       /\ nl_last' = "link" =>
            \A c \in RegisteredCells' :
                CellOf(c)'.module # NoModule =>
                    /\ Registered(CellOf(c).module_name)'
                    /\ CellOf(c)'.module = Lookup(modules', CellOf(c)'.module_name)]_vars

\* a cell was added after a link(): a cell of a registered module is resolved
\* and another one, the new one, is not
C36_Witness ==
    /\ nl_last = "add_cell"
    /\ \E c \in RegisteredCells : CellOf(c).module # NoModule
    /\ \E c \in RegisteredCells : CellOf(c).module = NoModule

(* C37: every port of every registered module has a net of the same name     *)
(* among the nets of that module.                                            *)
C37_PortHasNet ==
    \A o \in RegisteredObjects :
        \A name \in Keys(heap[o].ports) : IsDefined(heap[o].nets, name)

(* C39: read_file of e.v, which holds declarations and no module, registers  *)
(* no module and leaves every registered module the same object with the     *)
(* same ports, nets, parameters, cells and file, whatever was read before.   *)
C39_ModulelessFileRegistersNothing ==
    [][(nl_last' = "read_file" /\ ReadFile(P_e)) =>
           /\ modules' = modules
           /\ \A o \in RegisteredObjects : heap'[o] = heap[o]]_vars

-----------------------------------------------------------------------------
(* Parser: one Parser at work.  A step is the start of a tokenize call, one *)
(* turn of its loop, or its end.                                           *)

\* the characters the short texts are made of
LexChars == {"a", "1", " ", "\n", "/", "*", "\"", "@", ";", BT}

\* wire w; /* a
\* b */ 4'b1 + x_1 // c
T_lex ==
    <<"w", "i", "r", "e", " ", "w", ";", " ", "/", "*", " ", "a", "\n", "b", " ",
      "*", "/", " ", "4", "'", "b", "1", " ", "+", " ", "x", "_", "1", " ", "/",
      "/", " ", "c">>

\* the texts tokenize is called on
LexTexts == SeqsUpTo(LexChars, MaxText) \cup {T_lex, T_a, T_e}

\* tokenize(text) up to its loop, on the text the caller holds
Tokenize ==
    /\ lexer.pc # "scanning"
    /\ lexer' = [pc |-> "scanning", text |-> lexer.text, pos |-> 1, line |-> 1,
                 column |-> 1, tokens |-> <<>>, current_token |-> 0,
                 reads |-> lexer.reads]
    /\ UNCHANGED <<fs, ppvars, nlvars, number>>

\* the token _next_token finds at the place the loop is at
CurToken == next_token(lexer.text, lexer.pos, lexer.line, lexer.column)

\* a turn of the loop in which _next_token returns a token
AppendToken ==
    /\ lexer.pc = "scanning"
    /\ lexer.pos <= Len(lexer.text)
    /\ CurToken # NoToken
    /\ lexer' = [lexer EXCEPT
                    !.tokens = Append(@, CurToken),
                    !.pos = @ + Len(CurToken.value),
                    !.line = IF CurToken.type = "NEWLINE" THEN @ + 1 ELSE @,
                    !.column = IF CurToken.type = "NEWLINE" THEN 1
                               ELSE @ + Len(CurToken.value)]
    /\ UNCHANGED <<fs, ppvars, nlvars, number>>

\* a variant that stays at the character no pattern matches
SkipCharacter_stays ==
    /\ lexer.pc = "scanning"
    /\ lexer.pos <= Len(lexer.text)
    /\ CurToken = NoToken
    /\ lexer' = [lexer EXCEPT !.column = @ + 1]
    /\ UNCHANGED <<fs, ppvars, nlvars, number>>

\* a turn of the loop in which _next_token returns None
SkipCharacter ==
    /\ lexer.pc = "scanning"
    /\ lexer.pos <= Len(lexer.text)
    /\ CurToken = NoToken
    /\ lexer' = [lexer EXCEPT !.pos = @ + 1, !.column = @ + 1]
    /\ UNCHANGED <<fs, ppvars, nlvars, number>>

\* a variant that returns without the EOF token
AppendEOF_without_token ==
    /\ lexer.pc = "scanning"
    /\ lexer.pos > Len(lexer.text)
    /\ lexer' = [lexer EXCEPT !.pc = "done"]
    /\ UNCHANGED <<fs, ppvars, nlvars, number>>

\* the end of tokenize: the EOF token
AppendEOF ==
    /\ lexer.pc = "scanning"
    /\ lexer.pos > Len(lexer.text)
    /\ lexer' = [lexer EXCEPT
                    !.pc = "done",
                    !.tokens = Append(@, Token("EOF", <<>>, lexer.line, lexer.column,
                                              lexer.pos))]
    /\ UNCHANGED <<fs, ppvars, nlvars, number>>

\* a new Parser and the text its caller holds
InitTokenize ==
    /\ NewNetlist
    /\ number = NoCall(<<>>)
    /\ lexer \in {[LexerIdle EXCEPT !.text = text] : text \in LexTexts}

NextTokenize ==
    \/ Tokenize
    \/ AppendToken
    \/ SkipCharacter
    \/ AppendEOF

\* the loop of tokenize runs on until it ends
SpecTokenize ==
    InitTokenize /\ [][NextTokenize]_vars
        /\ WF_vars(AppendToken \/ SkipCharacter \/ AppendEOF)

-----------------------------------------------------------------------------
(* Parser: properties of tokenize                                          *)

\* tokenize has returned lexer.tokens
Tokenized == lexer.pc = "done"

(* C14: the sequence tokenize returns ends in an EOF token and holds no      *)
(* other EOF token.                                                          *)
C14_OneEOFAtEnd ==
    Tokenized =>
        /\ lexer.tokens # <<>>
        /\ lexer.tokens[Len(lexer.tokens)].type = "EOF"
        /\ \A i \in 1..(Len(lexer.tokens) - 1) : lexer.tokens[i].type # "EOF"

\* a text of keywords, comments, numbers and operators was tokenized
C14_Witness ==
    /\ Tokenized
    /\ lexer.text = T_lex
    /\ Len(lexer.tokens) > 10

(* C15: the tokens tokenize returns are in strictly increasing source        *)
(* position without overlap, and the value of each token is the source text  *)
(* from the position of the token on.                                        *)
C15_LexemesAreSourceText ==
    Tokenized =>
        /\ \A i \in 1..(Len(lexer.tokens) - 1) :
               lexer.tokens[i].pos + Len(lexer.tokens[i].value)
                   <= lexer.tokens[i + 1].pos
        /\ \A i \in 1..Len(lexer.tokens) :
               lexer.tokens[i].value =
                   Lexeme(lexer.text, lexer.tokens[i].pos, Len(lexer.tokens[i].value))

-----------------------------------------------------------------------------
(* SigParser: parse, one pass of its loop at a time, on the words and the  *)
(* texts ParseTexts                                                        *)

K_always == <<"a", "l", "w", "a", "y", "s">>

K_endmodule == <<"e", "n", "d", "m", "o", "d", "u", "l", "e">>

\* the words the texts are made of
ParseWords ==
    {K_module, K_input, K_wire, K_parameter, K_always, K_endmodule, <<"a">>, <<";">>}

RECURSIVE JoinWords(_)
JoinWords(ws) ==
    IF ws = <<>> THEN <<>>
    ELSE IF Len(ws) = 1 THEN ws[1]
    ELSE ws[1] \o SP \o JoinWords(Tail(ws))

\* the module of test_get_module_info: two ports, one wire, one parameter
T_info ==
    K_module \o <<" ", "t", "(">> \o K_input \o <<" ", "a", ",", " ">> \o K_output
        \o <<" ", "b", ")", ";", "\n">> \o K_wire \o <<" ", "c", ";", "\n">>
        \o K_parameter \o <<" ", "S", " ", "=", " ", "1", ";", "\n">> \o K_endmodule

\* a port declared with its net type, and a declaration of two names
T_port_net ==
    K_module \o <<" ", "t", ";", " ">> \o K_output \o SP \o K_reg \o <<" ", "q", ";", " ">>
        \o K_wire \o <<" ", "c", ",", " ", "d", ";", " ">> \o K_endmodule

ParseTexts ==
    {JoinWords(ws) : ws \in SeqsUpTo(ParseWords, MaxWords)}
        \cup {T_info, T_port_net, T_a, T_e, T_two}

\* the last token of a sequence
LastToken(tokens) == tokens[Len(tokens)]

\* the token the loop of parse is at
ParseToken == lexer.tokens[lexer.current_token + 1]

\* the loop of parse is at a token
AtToken == lexer.pc = "parsing" /\ lexer.current_token < Len(lexer.tokens)

\* the indices (from 0) the skip loop and the handler after it read, the
\* loop having started at index cur - 1 and stopped at index j - 1: the loop
\* and the handler read an index only after they found it below len(tokens)
SkipReads(tokens, cur, j) == {k - 1 : k \in {i \in cur..j : i <= Len(tokens)}}

\* the indices a pass of the loop on a keyword reads
KeywordReads(tokens, cur, keyword, j) ==
    IF keyword \in SkippingKeywords THEN SkipReads(tokens, cur, j) ELSE {cur - 1}

NextCursor_stuck(current_token, keyword, j) == current_token

\* the cursor after a pass of the loop on a keyword (j - 1 is where the
\* handler left it): self.current_token += 1
NextCursor(current_token, keyword, j) ==
    (IF keyword \in SkippingKeywords THEN j - 1 ELSE current_token) + 1

\* parse(text) up to its loop: tokenize, self.current_token = 0; the one
\* call a SigParser gets
Parse ==
    /\ lexer.pc \in {"idle", "done"}
    /\ lexer' = [pc |-> "parsing", text |-> lexer.text,
                 pos |-> Len(lexer.text) + 1,
                 line |-> LastToken(tokenize(lexer.text)).line,
                 column |-> LastToken(tokenize(lexer.text)).column,
                 tokens |-> tokenize(lexer.text), current_token |-> 0,
                 reads |-> {}]
    /\ UNCHANGED <<fs, ppvars, number, modules, heap, need_link, files, sig, top_modules,
                   nl_last, linked, cells_linked>>

KeywordStep(keyword, j) ==
    /\ lexer' = [lexer EXCEPT
                    !.current_token = NextCursor(lexer.current_token, keyword, j),
                    !.reads = KeywordReads(lexer.tokens, lexer.current_token + 1,
                                           keyword, j)]
    /\ sig' = handle_keyword(lexer.tokens, ParseToken, keyword, j, sig)

\* a pass of the loop on a KEYWORD token: _handle_keyword
DispatchKeyword ==
    /\ AtToken
    /\ ParseToken.type = "KEYWORD"
    /\ KeywordStep(LowerCase(ParseToken.value),
                   SkipToIdentifier(lexer.tokens, lexer.current_token + 1))
    /\ UNCHANGED <<fs, ppvars, number, modules, heap, need_link, files, top_modules,
                   nl_last, linked, cells_linked>>

\* a pass of the loop on any other token but EOF: _handle_directive and
\* _handle_identifier find no callback
DispatchOther ==
    /\ AtToken
    /\ ParseToken.type \notin {"KEYWORD", "EOF"}
    /\ lexer' = [lexer EXCEPT !.current_token = @ + 1,
                              !.reads = {lexer.current_token}]
    /\ UNCHANGED <<fs, ppvars, nlvars, number>>

\* the loop of parse ends: at the EOF token, or with the cursor at
\* len(tokens) or beyond
ParseEnd ==
    /\ lexer.pc = "parsing"
    /\ IF AtToken
       THEN /\ ParseToken.type = "EOF"
            /\ lexer' = [lexer EXCEPT !.pc = "parsed", !.reads = {lexer.current_token}]
       ELSE lexer' = [lexer EXCEPT !.pc = "parsed", !.reads = {}]
    /\ UNCHANGED <<fs, ppvars, nlvars, number>>

\* a new SigParser and the text its caller holds
InitParse ==
    /\ NewNetlist
    /\ number = NoCall(<<>>)
    /\ lexer \in {[LexerIdle EXCEPT !.text = text] : text \in ParseTexts}

NextParse ==
    \/ Parse
    \/ DispatchKeyword
    \/ DispatchOther
    \/ ParseEnd

\* the loop of parse runs on until it ends
SpecParse ==
    InitParse /\ [][NextParse]_vars
        /\ WF_vars(DispatchKeyword \/ DispatchOther \/ ParseEnd)

-----------------------------------------------------------------------------
(* Parser: properties of parse                                             *)

\* parse has returned
Parsed == lexer.pc = "parsed"

\* a pass of the loop of parse
ParseStep == DispatchKeyword \/ DispatchOther

(* C21: parse terminates: the cursor never decreases during a parse, every   *)
(* pass of the loop moves it on by at least one token, no pass reads a token *)
(* at an index of len(tokens) or beyond, and every parse that began returns. *)
C21_ParseTerminates ==
    /\ [][/\ lexer.pc = "parsing" => lexer'.current_token >= lexer.current_token
          /\ ParseStep => lexer'.current_token >= lexer.current_token + 1
          /\ lexer.pc = "parsing" =>
               \A i \in lexer'.reads : i >= 0 /\ i < Len(lexer.tokens)]_vars
    /\ (lexer.pc = "parsing") ~> Parsed

\* parse has returned after a module keyword that no identifier follows: the
\* cursor went beyond the end of the tokens
C21_Witness ==
    /\ Parsed
    /\ lexer.text = JoinWords(<<K_wire, <<";">>, K_module>>)
    /\ lexer.current_token > Len(lexer.tokens)

\* token i is a keyword of the set ks
KeywordAt(tokens, i, ks) ==
    tokens[i].type = "KEYWORD" /\ LowerCase(tokens[i].value) \in ks

\* the index of the last module keyword, or 0
LastModule(tokens) ==
    IF \E i \in 1..Len(tokens) : KeywordAt(tokens, i, {K_module})
    THEN CHOOSE i \in 1..Len(tokens) :
             /\ KeywordAt(tokens, i, {K_module})
             /\ \A k \in (i + 1)..Len(tokens) : ~KeywordAt(tokens, k, {K_module})
    ELSE 0

\* the value of the first identifier token after token i, or NoName
NextIdentifier(tokens, i) ==
    IF \E k \in (i + 1)..Len(tokens) : tokens[k].type = "IDENTIFIER"
    THEN tokens[CHOOSE k \in (i + 1)..Len(tokens) :
                    /\ tokens[k].type = "IDENTIFIER"
                    /\ \A n \in (i + 1)..(k - 1) : tokens[n].type # "IDENTIFIER"].value
    ELSE NoName

\* for each keyword of ks from token i on that an identifier follows, in
\* order, that identifier
RECURSIVE NamesAfter(_, _, _)
NamesAfter(tokens, i, ks) ==
    IF i > Len(tokens) THEN <<>>
    ELSE IF KeywordAt(tokens, i, ks) /\ NextIdentifier(tokens, i) # NoName
    THEN <<NextIdentifier(tokens, i)>> \o NamesAfter(tokens, i + 1, ks)
    ELSE NamesAfter(tokens, i + 1, ks)

\* the names of a list of descriptors
NameList(descriptors) == [k \in 1..Len(descriptors) |-> descriptors[k].name]

(* C25: after parse, the module name is the identifier after the last module *)
(* keyword, and ports, nets and parameters hold, in source order, one        *)
(* descriptor for every input/output/inout, wire/reg and parameter keyword   *)
(* after that module keyword that an identifier follows, named by it.        *)
C25_OneDescriptorPerKeyword ==
    Parsed =>
        /\ sig.current_module =
               IF LastModule(lexer.tokens) = 0 THEN NoName
               ELSE NextIdentifier(lexer.tokens, LastModule(lexer.tokens))
        /\ NameList(sig.current_ports) =
               NamesAfter(lexer.tokens, LastModule(lexer.tokens) + 1,
                          {K_input, K_output, K_inout})
        /\ NameList(sig.current_nets) =
               NamesAfter(lexer.tokens, LastModule(lexer.tokens) + 1, {K_wire, K_reg})
        /\ NameList(sig.current_parameters) =
               NamesAfter(lexer.tokens, LastModule(lexer.tokens) + 1, {K_parameter})

-----------------------------------------------------------------------------
(* Language: number_value, number_bits and number_signed.  A step is one   *)
(* call of one of them on the number string the caller holds.  The strings *)
(* of the model hold no 0b or 0X prefix and no white space, which int()    *)
(* would accept.                                                           *)

HexLetters == {"a", "b", "c", "d", "e", "f", "A", "B", "C", "D", "E", "F"}

\* [0-9a-fA-F_xXzZ]
ValueChars == Digit \cup HexLetters \cup {"_", "x", "X", "z", "Z"}

\* [a-f0-9A-F_]
BitsChars == Digit \cup HexLetters \cup {"_"}

\* [bdh]
BaseChars == {"b", "d", "h"}

HexDigits ==
    <<"0", "1", "2", "3", "4", "5", "6", "7", "8", "9", "a", "b", "c", "d", "e", "f">>

\* the base int() is called with
BaseOf(c) == CASE c = "b" -> 2 [] c = "d" -> 10 [] c = "h" -> 16

\* s[i] exists and is in S
CharAt(s, i, S) == i <= Len(s) /\ s[i] \in S

\* the value of a character as a digit, 16 when it is none
DigitValue(c) ==
    IF \E i \in 1..16 : HexDigits[i] = ToLower(c)
    THEN (CHOOSE i \in 1..16 : HexDigits[i] = ToLower(c)) - 1
    ELSE 16

Clean_keeps_x(value) == SelectSeq(value, LAMBDA c : c # "_")

\* value.replace('_', '').replace('x', '0').replace('z', '0')
Clean(value) ==
    [i \in 1..Len(SelectSeq(value, LAMBDA c : c # "_")) |->
        IF SelectSeq(value, LAMBDA c : c # "_")[i] \in {"x", "z"} THEN "0"
        ELSE SelectSeq(value, LAMBDA c : c # "_")[i]]

\* int(v, base) does not raise ValueError
IsInt(v, base) == v # <<>> /\ \A i \in 1..Len(v) : DigitValue(v[i]) < base

\* int(v, base), from the value acc of the digits read so far
RECURSIVE IntFrom(_, _, _)
IntFrom(v, base, acc) ==
    IF v = <<>> THEN acc ELSE IntFrom(Tail(v), base, acc * base + DigitValue(Head(v)))

\* how a call ends: with an int, with True, with None or with an exception
IntResult(value) == [outcome |-> "int", value |-> value]
TrueResult == [outcome |-> "True", value |-> 0]
NoneResult == [outcome |-> "None", value |-> 0]
ValueError == [outcome |-> "ValueError", value |-> 0]

\* int(v, base) of a cleaned value
Convert(v, base) == IF IsInt(v, base) THEN IntResult(IntFrom(v, base, 0)) ELSE ValueError

\* except (ValueError, AttributeError): return None
Caught(r) == IF r.outcome = "ValueError" THEN NoneResult ELSE r

\* re.match(r'(\d+)\'s([bdh])([0-9a-fA-F_xXzZ]+)', s), n the length of group 1
SignedMatch(s, n) ==
    /\ n >= 1
    /\ CharAt(s, n + 1, {"'"}) /\ CharAt(s, n + 2, {"s"}) /\ CharAt(s, n + 3, BaseChars)
    /\ RunLen(s, n + 4, ValueChars) >= 1

\* re.match(r'(\d+)\'([bdh])([0-9a-fA-F_xXzZ]+)', s)
UnsignedMatch(s, n) ==
    /\ n >= 1
    /\ CharAt(s, n + 1, {"'"}) /\ CharAt(s, n + 2, BaseChars)
    /\ RunLen(s, n + 3, ValueChars) >= 1

\* the group of digits that starts at index i, S its character class
Group3(s, i, S) == SubSeq(s, i, i + RunLen(s, i, S) - 1)

\* re.match(r'^\d+$', s)
IsPlainDecimal(s) ==
    RStripNewline(s) # <<>> /\ \A i \in 1..Len(RStripNewline(s)) : s[i] \in Digit

NumberValueAt(s, n) ==
    IF SignedMatch(s, n)
    THEN Caught(Convert(Clean(Group3(s, n + 4, ValueChars)), BaseOf(s[n + 3])))
    ELSE IF UnsignedMatch(s, n)
    THEN Caught(Convert(Clean(Group3(s, n + 3, ValueChars)), BaseOf(s[n + 2])))
    ELSE IF IsPlainDecimal(s) THEN IntResult(IntFrom(RStripNewline(s), 10, 0))
    ELSE NoneResult

\* Language.number_value
number_value(number_string) ==
    NumberValueAt(number_string, RunLen(number_string, 1, Digit))

\* x >> k
RECURSIVE ShiftRight(_, _)
ShiftRight(x, k) == IF k = 0 \/ x = 0 THEN x ELSE ShiftRight(x \div 2, k - 1)

\* a variant that gives back the magnitude
unsigned_to_signed_magnitude(x, n) == IF n = 0 THEN ValueError ELSE IntResult(x)

\* Language.unsigned_to_signed(x, n); a negative shift count raises ValueError
unsigned_to_signed(x, n) ==
    IF n = 0 THEN ValueError
    ELSE IF ShiftRight(x, n - 1) = 1 THEN IntResult(0 - ((2 ^ n) - x))
    ELSE IntResult(x)

\* unsigned_to_signed(int(value, base), int(size))
SignedBits(r, size) ==
    IF r.outcome = "ValueError" THEN r ELSE unsigned_to_signed(r.value, size)

\* re.match(r'(\d+)\'(s\w)([a-f0-9A-F_]+)', s)
BitsSignedMatch(s, n) ==
    /\ n >= 1
    /\ CharAt(s, n + 1, {"'"}) /\ CharAt(s, n + 2, {"s"}) /\ CharAt(s, n + 3, WordChars)
    /\ RunLen(s, n + 4, BitsChars) >= 1

\* re.match(r'(\d+)\'(\w)([a-f0-9A-F_]+)', s)
BitsUnsignedMatch(s, n) ==
    /\ n >= 1
    /\ CharAt(s, n + 1, {"'"}) /\ CharAt(s, n + 2, WordChars)
    /\ RunLen(s, n + 3, BitsChars) >= 1

NumberBitsAt(s, n) ==
    IF BitsSignedMatch(s, n) /\ s[n + 3] \in BaseChars
    THEN SignedBits(Convert(Clean(Group3(s, n + 4, BitsChars)), BaseOf(s[n + 3])),
                    IntFrom(Take(s, n), 10, 0))
    ELSE IF BitsUnsignedMatch(s, n) /\ s[n + 2] \in BaseChars
    THEN Convert(Clean(Group3(s, n + 3, BitsChars)), BaseOf(s[n + 2]))
    ELSE NoneResult

\* Language.number_bits
number_bits(number_string) ==
    NumberBitsAt(number_string, RunLen(number_string, 1, Digit))

NumberSignedAt(s, n) ==
    IF /\ n >= 1
       /\ CharAt(s, n + 1, {"'"}) /\ CharAt(s, n + 2, {"s"}) /\ CharAt(s, n + 3, BaseChars)
    THEN TrueResult
    ELSE NoneResult

\* Language.number_signed
number_signed(number_string) ==
    NumberSignedAt(number_string, RunLen(number_string, 1, Digit))

\* the sizes, the characters of the digits and the strings of the model
Sizes == {<<"0">>, <<"1">>, <<"4">>, <<"3", "2">>}

DigitChars == {"1", "2", "f", "_", "x", "z", "g"}

S_4b1111 == <<"4", "'", "b", "1", "1", "1", "1">>
S_32h1b == <<"3", "2", "'", "h", "1", "b">>
S_123 == <<"1", "2", "3">>
S_invalid == <<"i", "n", "v", "a", "l", "i", "d">>

Literals ==
    {size \o <<"'">> \o sign \o <<base>> \o digits :
        size \in Sizes, sign \in {<<>>, <<"s">>}, base \in BaseChars,
        digits \in SeqsUpTo(DigitChars, MaxDigits)}

NumberStrings ==
    Literals \cup SeqsUpTo({"1", "9", "a", "'"}, MaxDigits)
        \cup {S_4b1111, S_32h1b, S_123, S_invalid, <<"4", "'", "o", "7">>}

\* the call has ended with r
Called(name, r) ==
    /\ number' = [string |-> number.string, called |-> name, outcome |-> r.outcome,
                  value |-> r.value]
    /\ UNCHANGED <<fs, ppvars, nlvars, lexer>>

NumberValue == Called("number_value", number_value(number.string))

NumberBits == Called("number_bits", number_bits(number.string))

NumberSigned == Called("number_signed", number_signed(number.string))

\* the string the caller holds
InitNumber ==
    /\ NewNetlist
    /\ lexer = LexerIdle
    /\ number \in {NoCall(s) : s \in NumberStrings}

NextNumber ==
    \/ NumberValue
    \/ NumberBits
    \/ NumberSigned

SpecNumber == InitNumber /\ [][NextNumber]_vars

-----------------------------------------------------------------------------
(* Language: properties of the number functions                            *)

\* the digits of a literal of the base: digits of the base, _, x and z, one
\* of them at least no underscore
IsDigits(d, base) ==
    /\ \A i \in 1..Len(d) : d[i] \in {"_", "x", "z"} \/ DigitValue(d[i]) < base
    /\ \E i \in 1..Len(d) : d[i] # "_"

\* s, with a size of n characters and a sign of k, is <size>'[s]<b|d|h><digits>
IsLiteral(s, n, k) ==
    /\ n >= 1
    /\ CharAt(s, n + 1, {"'"})
    /\ k = 1 => CharAt(s, n + 2, {"s"})
    /\ CharAt(s, n + k + 2, BaseChars)
    /\ IsDigits(Drop(s, n + k + 2), BaseOf(s[n + k + 2]))

\* the sign of s has k characters
SignLen(s, n) == IF CharAt(s, n + 2, {"s"}) THEN 1 ELSE 0

\* a plain decimal integer
IsDecimal(s) == s # <<>> /\ \A i \in 1..Len(s) : s[i] \in Digit

WellFormed(s) ==
    \/ IsDecimal(s)
    \/ IsLiteral(s, RunLen(s, 1, Digit), SignLen(s, RunLen(s, 1, Digit)))

\* the magnitude of digits in a base: underscores left out, x and z as 0
RECURSIVE Magnitude(_, _, _)
Magnitude(d, base, acc) ==
    IF d = <<>> THEN acc
    ELSE IF Head(d) = "_" THEN Magnitude(Tail(d), base, acc)
    ELSE IF Head(d) \in {"x", "z"} THEN Magnitude(Tail(d), base, acc * base)
    ELSE Magnitude(Tail(d), base, acc * base + DigitValue(Head(d)))

LiteralMagnitude(s, n, k) == Magnitude(Drop(s, n + k + 2), BaseOf(s[n + k + 2]), 0)

\* the value the claim gives a well-formed string
ClaimedValue(s) ==
    IF IsDecimal(s) THEN Magnitude(s, 10, 0)
    ELSE LiteralMagnitude(s, RunLen(s, 1, Digit), SignLen(s, RunLen(s, 1, Digit)))

(* C26: for a well-formed literal <width>'[s]<b|d|h><digits> and for a plain *)
(* decimal integer, number_value returns the magnitude of the digits in the  *)
(* base, underscores left out and x and z read as 0.                         *)
C26_NumberValue ==
    (number.called = "number_value" /\ WellFormed(number.string)) =>
        /\ number.outcome = "int"
        /\ number.value = ClaimedValue(number.string)

\* number_value("32'h1b") returned 27
C26_Witness ==
    /\ number.called = "number_value"
    /\ number.string = S_32h1b
    /\ number.outcome = "int" /\ number.value = 27

(* C27: on a string that is no well-formed literal, number_value, number_bits *)
(* and number_signed return None, and none of them raises.                   *)
C27_MalformedGivesNone ==
    (number.called # "none" /\ ~WellFormed(number.string)) => number.outcome = "None"

-----------------------------------------------------------------------------
(* Parser: properties of the places and the classes of the tokens           *)

\* the places before pos at which the text has a newline
NewlinesBefore(text, pos) == {i \in 1..(pos - 1) : text[i] = "\n"}

\* the place of the last newline before pos, 0 when there is none
LastNewlineBefore(text, pos) ==
    IF NewlinesBefore(text, pos) = {} THEN 0
    ELSE CHOOSE i \in NewlinesBefore(text, pos) :
             \A j \in NewlinesBefore(text, pos) : j <= i

(* C32: the line of every token tokenize returns is 1 plus the number of     *)
(* newlines before its start, and its column is 1 plus the number of         *)
(* characters between the last newline before its start and its start.       *)
C32_LineAndColumn ==
    Tokenized =>
        \A i \in 1..Len(lexer.tokens) :
            /\ lexer.tokens[i].line =
                   1 + Cardinality(NewlinesBefore(lexer.text, lexer.tokens[i].pos))
            /\ lexer.tokens[i].column =
                   lexer.tokens[i].pos - LastNewlineBefore(lexer.text, lexer.tokens[i].pos)

\* the text has the two characters a, b at pos
StartsWith2(text, pos, a, b) ==
    pos + 1 <= Len(text) /\ text[pos] = a /\ text[pos + 1] = b

\* the first place from pos on where the text has character c, 0 when none
FirstAt(text, pos, c) ==
    IF \E i \in pos..Len(text) : text[i] = c
    THEN CHOOSE i \in pos..Len(text) :
             text[i] = c /\ \A j \in pos..(i - 1) : text[j] # c
    ELSE 0

\* the first place from pos on where the text has */, 0 when none
FirstCloseAt(text, pos) ==
    IF \E i \in pos..Len(text) : StartsWith2(text, i, "*", "/")
    THEN CHOOSE i \in pos..Len(text) :
             /\ StartsWith2(text, i, "*", "/")
             /\ \A j \in pos..(i - 1) : ~StartsWith2(text, j, "*", "/")
    ELSE 0

\* the comments of a Verilog text from pos on, each as <<first, last>>: a //
\* comment runs to the end of its line, a /* comment to the next */, and a
\* string holds no comment
RECURSIVE CommentSpans(_, _)
CommentSpans(text, pos) ==
    IF pos > Len(text) THEN {}
    ELSE IF StartsWith2(text, pos, "/", "/")
    THEN IF FirstAt(text, pos, "\n") = 0 THEN {<<pos, Len(text)>>}
         ELSE {<<pos, FirstAt(text, pos, "\n") - 1>>}
                  \cup CommentSpans(text, FirstAt(text, pos, "\n"))
    ELSE IF StartsWith2(text, pos, "/", "*") /\ FirstCloseAt(text, pos + 2) # 0
    THEN {<<pos, FirstCloseAt(text, pos + 2) + 1>>}
             \cup CommentSpans(text, FirstCloseAt(text, pos + 2) + 2)
    ELSE IF text[pos] = "\"" /\ FirstAt(text, pos + 1, "\"") # 0
    THEN CommentSpans(text, FirstAt(text, pos + 1, "\"") + 1)
    ELSE CommentSpans(text, pos + 1)

(* C33: every comment of the text is the value of exactly one COMMENT token   *)
(* that tokenize returns, and no other token starts inside the comment.       *)
C33_CommentIsOneToken ==
    Tokenized =>
        \A span \in CommentSpans(lexer.text, 1) :
            /\ \E i \in 1..Len(lexer.tokens) :
                   /\ lexer.tokens[i].type = "COMMENT"
                   /\ lexer.tokens[i].pos = span[1]
                   /\ Len(lexer.tokens[i].value) = span[2] - span[1] + 1
            /\ \A i \in 1..Len(lexer.tokens) :
                   lexer.tokens[i].pos \in (span[1] + 1)..span[2] =>
                       lexer.tokens[i].type \notin {"KEYWORD", "IDENTIFIER", "OPERATOR"}

\* a turn of the loop of tokenize
TokenizeTurn == lexer.pc = "scanning" /\ lexer'.pc = "scanning"

\* one of the patterns matches the text at pos
MatchesAt(text, pos) ==
    \/ CommentLen(text, pos) > 0
    \/ StringLen(text, pos) > 0
    \/ NumberLen(text, pos) > 0
    \/ DirectiveLen(text, pos) > 0
    \/ KeywordLen(text, pos) > 0
    \/ IdentifierLen(text, pos) > 0
    \/ OperatorLen(text, pos) > 0
    \/ DelimiterLen(text, pos) > 0
    \/ WhitespaceLen(text, pos) > 0

(* C34: every turn of the loop of tokenize either appends one token of a     *)
(* non-empty value and moves on by the length of the value, or appends no    *)
(* token and moves on by exactly one character that no pattern matches; and  *)
(* every tokenize that began returns.                                        *)
C34_TokenizeTerminates ==
    /\ [][TokenizeTurn =>
            \/ /\ Len(lexer'.tokens) = Len(lexer.tokens) + 1
               /\ SubSeq(lexer'.tokens, 1, Len(lexer.tokens)) = lexer.tokens
               /\ Len(lexer'.tokens[Len(lexer'.tokens)].value) >= 1
               /\ lexer'.pos = lexer.pos + Len(lexer'.tokens[Len(lexer'.tokens)].value)
               /\ MatchesAt(lexer.text, lexer.pos)
            \/ /\ lexer'.tokens = lexer.tokens
               /\ lexer'.pos = lexer.pos + 1
               /\ ~MatchesAt(lexer.text, lexer.pos)]_vars
    /\ (lexer.pc = "scanning") ~> Tokenized

\* tokenize has returned on a text with a character no pattern matches between
\* two tokens
C34_Witness ==
    /\ Tokenized
    /\ lexer.text = <<"a", "@", ";">>
    /\ Len(lexer.tokens) = 3

-----------------------------------------------------------------------------
(* Language: properties of the signed literals                             *)

\* s is a well-formed signed literal with a size of n characters
IsSignedLiteral(s, n) == IsLiteral(s, n, 1) /\ SignLen(s, n) = 1

\* the declared width of a literal with a size of n characters
Width(s, n) == Magnitude(Take(s, n), 10, 0)

\* bit w - 1 of m is set
TopBitSet(m, w) == w >= 1 /\ ShiftRight(m, w - 1) % 2 = 1

\* the two's complement reading of the magnitude m at the width w
Reinterpreted(m, w) == IF TopBitSet(m, w) THEN m - (2 ^ w) ELSE m

\* the literal has no x and no z among its digits
NoXZ(s) == \A i \in 1..Len(s) : s[i] \notin {"x", "z"}

\* C35 as stated: number_value on a signed literal returns the magnitude
\* minus 2^width when the top bit of the magnitude at the width is set, and
\* the magnitude when it is clear
C35_ValueReinterpreted ==
    (/\ number.called = "number_value"
     /\ IsSignedLiteral(number.string, RunLen(number.string, 1, Digit))) =>
        /\ number.outcome = "int"
        /\ number.value =
               Reinterpreted(LiteralMagnitude(number.string,
                                              RunLen(number.string, 1, Digit), 1),
                             Width(number.string, RunLen(number.string, 1, Digit)))

\* what number_bits gives the signed literal s with a size of n characters
\* whose magnitude fits the width
BitsReinterpreted(s, n) ==
    (/\ NoXZ(s)
     /\ Width(s, n) >= 1
     /\ ShiftRight(LiteralMagnitude(s, n, 1), Width(s, n)) = 0) =>
        /\ number.outcome = "int"
        /\ number.value = Reinterpreted(LiteralMagnitude(s, n, 1), Width(s, n))

(* C35: number_value on a signed literal returns the magnitude, whether the  *)
(* top bit of the magnitude at the declared width is set or clear; it is     *)
(* number_bits that returns the magnitude minus 2^width when that bit is set *)
(* and the magnitude when it is clear, for a literal of a width of 1 or more *)
(* without x and z whose magnitude is below 2^width.                         *)
C35_ValueIsMagnitude ==
    IsSignedLiteral(number.string, RunLen(number.string, 1, Digit)) =>
        /\ number.called = "number_value" =>
               /\ number.outcome = "int"
               /\ number.value = LiteralMagnitude(number.string,
                                                  RunLen(number.string, 1, Digit), 1)
        /\ number.called = "number_bits" =>
               BitsReinterpreted(number.string, RunLen(number.string, 1, Digit))

\* number_value("1'sh1") returned 1
C35_Witness ==
    /\ number.called = "number_value"
    /\ number.string = <<"1", "'", "s", "h", "1">>
    /\ number.outcome = "int" /\ number.value = 1

====
